---------------------------- MODULE Spec2Model ----------------------------
(***************************************************************************)
(* Hybrid travel assistant: the answer() pipeline of hybrid_chat.py        *)
(* (classification, graph search with fallback, vector search, keyword     *)
(* lookups, context building, generation) and the /chat endpoint of        *)
(* fastapi_app.py that wraps it.                                           *)
(*                                                                         *)
(* Python strings are TLA+ strings.  The external collaborators (graph     *)
(* store, embedding provider, vector index, generation provider) are the   *)
(* environment: every call either raises or returns one of a small set of  *)
(* responses.                                                              *)
(***************************************************************************)
EXTENDS Integers, Sequences, FiniteSets, TLC

VARIABLES
    entry,                  \* "answer" or "chat": the function the caller invoked
    frame,                  \* "answer" or "chat": whose body is running the current search
    pc,                     \* position in the running function
    query,                  \* the query string of the request
    verbose,                \* the verbose flag of the request
    query_type,             \* answer(): query_type
    neo4j_results,          \* answer(): neo4j_results
    pinecone_results,       \* answer(): pinecone_results
    keywords,               \* answer(): entities["keywords"]
    kw_i,                   \* answer(): position of the keyword loop (1-based)
    context_parts,          \* build_context(): context_parts
    context,                \* answer(): context
    answer_text,            \* answer(): answer_text, the value answer() returns
    chat_neo4j_results,     \* chat(): neo4j_results
    chat_pinecone_results,  \* chat(): pinecone_results
    response,               \* chat(): the HTTP response
    exc,                    \* the exception that left answer(), "" when none
    gen_request,            \* the messages sent to the generation provider
    calls,                  \* history: the calls issued so far, in order
    printed,                \* history: what was printed to stdout, in order
    ranked,                 \* rerank(): the ranked results it returns
    env,                    \* the settings os.getenv finds in the environment
    parked,                 \* the locals of a second request that is not running now
    session,                \* interactive_chat(): what input() has done so far
    ingest                  \* the locals of the running function of an ingestion script

vars == << entry, frame, pc, query, verbose, query_type, neo4j_results,
           pinecone_results, keywords, kw_i, context_parts, context,
           answer_text, chat_neo4j_results, chat_pinecone_results, response,
           exc, gen_request, calls, printed, ranked, env, parked, session,
           ingest >>

-----------------------------------------------------------------------------
(* Bounds of the model.                                                    *)

\* the graph store returns at most this many rows to one query
MaxGraphRows == 6
\* the graph store returns at most this many rows to one country lookup
MaxCountryRows == 2
\* the vector index returns at most this many matches to one query
MaxMatches == 4
\* free-form queries given to the classifier have at most this many words
MaxWords == 2
\* upsert_docs is given at most this many files
MaxFiles == 2
\* chunk_text returns at most this many chunks for a file
MaxFileChunks == 45
\* the data set of the graph loader has at most this many nodes
MaxNodes == 2
\* chunk_text is given texts of at most this many characters
MaxTextLen == 6
\* chunk_text is given max_chars of at most this
MaxChunkChars == 4
\* an interactive session calls input() at most this many times
MaxReads == 2
\* rerank is given at most this many matches
MaxRerankMatches == 3
\* a character budget for the context; descriptions stored in the graph run
\* to one character more
ContextBudget == 2500

-----------------------------------------------------------------------------
(* Python values: None, str and numbers (fixed point, in tenths).          *)

None == [t |-> "none", s |-> "", n |-> 0]
Str(x) == [t |-> "str", s |-> x, n |-> 0]
Num(k) == [t |-> "num", s |-> "", n |-> k]

\* bool(v): None, "" and 0 are false
Truthy(v) == (v.t = "str" /\ v.s # "") \/ (v.t = "num" /\ v.n # 0)

\* d.get(k, default)
Get(d, k, default) == IF k \in DOMAIN d THEN d[k] ELSE default

Min(a, b) == IF a < b THEN a ELSE b

\* s[:n]
Take(s, n) == SubSeq(s, 1, Min(Len(s), n))

\* str(i) for a natural number
RECURSIVE ToStr(_)
ToStr(i) ==
    IF i < 10 THEN SubSeq("0123456789", i + 1, i + 1)
    ELSE ToStr(i \div 10) \o SubSeq("0123456789", (i % 10) + 1, (i % 10) + 1)

\* the text an f-string renders for a value: a float prints with its decimal
Fmt(v) ==
    CASE v.t = "none" -> "None"
      [] v.t = "str" -> v.s
      [] v.t = "num" -> ToStr(v.n \div 10) \o "." \o ToStr(v.n % 10)

\* sep.join(parts)
RECURSIVE Join(_, _)
Join(parts, sep) ==
    IF parts = << >> THEN ""
    ELSE IF Len(parts) = 1 THEN parts[1]
    ELSE parts[1] \o sep \o Join(Tail(parts), sep)

\* w in s
Contains(s, w) ==
    \E i \in 1..(Len(s) - Len(w) + 1) : SubSeq(s, i, i + Len(w) - 1) = w

UPPERCASE == "ABCDEFGHIJKLMNOPQRSTUVWXYZ"
LOWERCASE == "abcdefghijklmnopqrstuvwxyz"
DIGITS == "0123456789"

CharAt(s, i) == IF i >= 1 /\ i <= Len(s) THEN SubSeq(s, i, i) ELSE ""
IsUpper(c) == c # "" /\ Contains(UPPERCASE, c)
IsLower(c) == c # "" /\ Contains(LOWERCASE, c)
IsWordChar(c) == IsUpper(c) \/ IsLower(c) \/ (c # "" /\ Contains(DIGITS, c)) \/ c = "_"
IsSpace(c) == c \in {" ", "\n", "\t"}

LowerChar(c) ==
    IF IsUpper(c)
    THEN LET i == CHOOSE j \in 1..26 : SubSeq(UPPERCASE, j, j) = c
         IN  SubSeq(LOWERCASE, i, i)
    ELSE c

\* s.lower()
RECURSIVE lower(_)
lower(s) == IF s = "" THEN "" ELSE LowerChar(Head(s)) \o lower(Tail(s))

-----------------------------------------------------------------------------
(* determine_query_type                                                    *)

ITINERARY_WORDS == << "itinerary", "trip", "plan", "days", "visit", "travel to" >>
RECOMMENDATION_WORDS == << "where", "find", "recommend", "best", "top" >>
FACTUAL_WORDS == << "what", "who", "when", "how", "why" >>

\* any(word in s for word in words)
AnyWordIn(words, s) == \E i \in 1..Len(words) : Contains(s, words[i])

\* determine_query_type with a fault: the query is not lower-cased
determine_query_type_no_lower(q) ==
    IF AnyWordIn(ITINERARY_WORDS, q) THEN "itinerary"
    ELSE IF AnyWordIn(RECOMMENDATION_WORDS, q) THEN "recommendation"
    ELSE IF AnyWordIn(FACTUAL_WORDS, q) THEN "factual"
    ELSE "general"

determine_query_type(q) ==
    LET query_lower == lower(q)
    IN  IF AnyWordIn(ITINERARY_WORDS, query_lower) THEN "itinerary"
        ELSE IF AnyWordIn(RECOMMENDATION_WORDS, query_lower) THEN "recommendation"
        ELSE IF AnyWordIn(FACTUAL_WORDS, query_lower) THEN "factual"
        ELSE "general"

-----------------------------------------------------------------------------
(* extract_entities                                                        *)

LOCATION_TYPES == << "restaurant", "hotel", "museum", "beach", "park", "temple",
                     "market", "cafe", "bar", "landmark", "attraction", "monument" >>

\* \b between position p and p + 1 of s
Boundary(s, p) == IsWordChar(CharAt(s, p)) # IsWordChar(CharAt(s, p + 1))

\* the end of the run of [a-z] that starts at i, i - 1 when there is none
RECURSIVE LowerRunEnd(_, _)
LowerRunEnd(s, i) ==
    IF IsLower(CharAt(s, i)) THEN LowerRunEnd(s, i + 1) ELSE i - 1

\* [A-Z][a-z]+ at i: the end of its longest match, 0 when it does not match
CapWordEnd(s, i) ==
    IF IsUpper(CharAt(s, i)) /\ IsLower(CharAt(s, i + 1))
    THEN LowerRunEnd(s, i + 1) ELSE 0

\* the first position after the run of \s that starts at i
RECURSIVE SkipSpace(_, _)
SkipSpace(s, i) == IF IsSpace(CharAt(s, i)) THEN SkipSpace(s, i + 1) ELSE i

\* (?:\s+[A-Z][a-z]+)*\b after a word that ends at e: the end of the greedy
\* match, backtracking to a shorter chain when \b fails; 0 when none matches
RECURSIVE ChainEnd(_, _)
ChainEnd(s, e) ==
    LET k == SkipSpace(s, e + 1)
        e2 == IF k > e + 1 THEN CapWordEnd(s, k) ELSE 0
        longer == IF e2 > 0 THEN ChainEnd(s, e2) ELSE 0
    IN  IF longer > 0 THEN longer
        ELSE IF Boundary(s, e) THEN e
        ELSE 0

\* the end of the match of the whole pattern at i, 0 when it does not match
MatchAt(s, i) ==
    IF Boundary(s, i - 1) /\ CapWordEnd(s, i) > 0
    THEN ChainEnd(s, CapWordEnd(s, i)) ELSE 0

\* re.findall(r'\b[A-Z][a-z]+(?:\s+[A-Z][a-z]+)*\b', s), scanning from i
RECURSIVE FindAllFrom(_, _)
FindAllFrom(s, i) ==
    IF i > Len(s) THEN << >>
    ELSE LET e == MatchAt(s, i)
         IN  IF e > 0 THEN << SubSeq(s, i, e) >> \o FindAllFrom(s, e + 1)
             ELSE FindAllFrom(s, i + 1)

\* [x for x in xs if x in s]
RECURSIVE FilterIn(_, _)
FilterIn(xs, s) ==
    IF xs = << >> THEN << >>
    ELSE (IF Contains(s, Head(xs)) THEN << Head(xs) >> ELSE << >>)
         \o FilterIn(Tail(xs), s)

extract_entities(q) ==
    [ countries |-> << >>,
      cities |-> << >>,
      types |-> FilterIn(LOCATION_TYPES, lower(q)),
      keywords |-> FindAllFrom(q, 1) ]

-----------------------------------------------------------------------------
(* What the external stores and providers answer.                          *)

\* a text of n characters, as long as the data set makes it
RECURSIVE LongText(_)
LongText(n) ==
    IF n = 0 THEN ""
    ELSE IF n = 1 THEN "x"
    ELSE LET half == LongText(n \div 2) IN half \o half \o LongText(n % 2)

\* text of n characters
RECURSIVE TextOfLen(_)
TextOfLen(n) ==
    IF n = 0 THEN ""
    ELSE IF n < 10 THEN SubSeq("abcdefghij", 1, n)
    ELSE "abcdefghij" \o TextOfLen(n - 10)

\* the i-th Location node of the graph store, with its full-text score
Node(i) ==
    [ name |-> Str("Loc" \o ToStr(i)),
      description |-> IF i % 3 = 0 THEN None ELSE Str("Desc" \o ToStr(i)),
      type |-> IF i % 4 = 0 THEN Str("") ELSE Str("temple"),
      country |-> Str("Vietnam"),
      rating |-> IF i % 5 = 0 THEN None ELSE Num(40 + i),
      score |-> Num(30 - i) ]

\* rows of the full-text query: name, description, type, country, rating, score
FullTextRows(n) ==
    [ i \in 1..n |->
        [ name |-> Node(i).name, description |-> Node(i).description,
          type |-> Node(i).type, country |-> Node(i).country,
          rating |-> Node(i).rating, score |-> Node(i).score ] ]

\* rows of the CONTAINS query: name, description, type, country, rating
FallbackRows(n) ==
    [ i \in 1..n |->
        [ name |-> Node(i).name, description |-> Node(i).description,
          type |-> Node(i).type, country |-> Node(i).country,
          rating |-> Node(i).rating ] ]

\* rows of the country query: name, description, type, rating
CountryRows(country, n) ==
    [ i \in 1..n |->
        [ name |-> Str(country \o " Site " \o ToStr(i)),
          description |-> Str("In " \o country),
          type |-> Str("landmark"),
          rating |-> Num(50 - i) ] ]

\* the metadata the ingestion attached to the i-th vector of the index
Metadata(i) ==
    CASE i = 1 -> [ full_chunk |-> Str(TextOfLen(501)), chunk_text |-> Str(TextOfLen(7)),
                    source |-> Str("guide.md"), title |-> Str("Hanoi Guide") ]
      [] i = 2 -> [ chunk_text |-> Str(TextOfLen(7)), source |-> Str("food.md") ]
      [] i = 3 -> [ source |-> Str("empty.md"), title |-> Str("Empty") ]
      [] OTHER -> [ full_chunk |-> Str(TextOfLen(500)), title |-> Str("Doc" \o ToStr(i)) ]

\* the i-th match of a similarity query
Match(i) == [ id |-> Str("doc" \o ToStr(i)), score |-> Num(10 - i), metadata |-> Metadata(i) ]

Matches(n) == [ i \in 1..n |-> Match(i) ]

\* how many rows or matches one call may return
GraphSizes == {0, 2, MaxGraphRows}
CountrySizes == {0, MaxCountryRows}
MatchSizes == {0, MaxMatches}

\* the text of a successful completion
GeneratedText == "Here is your travel answer."
\* str(e) of a provider failure
ProviderError == "provider unavailable"

-----------------------------------------------------------------------------
(* neo4j_search, get_locations_by_country, pinecone_search: the results    *)
(* they build from the rows they were given.                               *)

\* the dictionaries appended in the loop over the full-text records
neo4j_search_results(rows) ==
    [ i \in 1..Len(rows) |->
        [ name |-> rows[i]["name"], description |-> rows[i]["description"],
          type |-> rows[i]["type"], country |-> rows[i]["country"],
          rating |-> rows[i]["rating"], score |-> rows[i]["score"] ] ]

\* [dict(record) for record in res]
dict_records(rows) == [ i \in 1..Len(rows) |-> rows[i] ]

\* the dictionaries appended in the loop over res.matches
pinecone_search_results(matches) ==
    [ i \in 1..Len(matches) |->
        LET md == matches[i].metadata
        IN  [ id |-> matches[i].id,
              score |-> matches[i].score,
              text |-> Get(md, "full_chunk", Get(md, "chunk_text", Str(""))),
              source |-> Get(md, "source", Str("")),
              title |-> Get(md, "title", Str("")) ] ]

-----------------------------------------------------------------------------
(* build_context                                                           *)

GRAPH_TOP == 5
VECTOR_TOP == 3
TEXT_CHARS == 500

GRAPH_HEADER == "=== Locations from Knowledge Graph ==="
VECTOR_HEADER == "\n=== Detailed Travel Information ==="

location_info(i, result) ==
    LET s0 == ToStr(i) \o ". " \o Fmt(Get(result, "name", Str("Unknown")))
        s1 == IF Truthy(Get(result, "type", None))
              THEN s0 \o " (" \o Fmt(result["type"]) \o ")" ELSE s0
        s2 == IF Truthy(Get(result, "country", None))
              THEN s1 \o " in " \o Fmt(result["country"]) ELSE s1
        s3 == IF Truthy(Get(result, "description", None))
              THEN s2 \o "\n   Description: " \o Fmt(result["description"]) ELSE s2
        s4 == IF Truthy(Get(result, "rating", None))
              THEN s3 \o "\n   Rating: " \o Fmt(result["rating"]) \o "/5" ELSE s3
    IN  s4

doc_info(i, result) ==
    ToStr(i) \o ". From " \o Fmt(Get(result, "title", Str("Travel Guide")))
        \o ":\n   " \o Take(Get(result, "text", Str("")).s, TEXT_CHARS) \o "..."

\* build_context_parts with a fault: one graph result too many
build_context_parts_six(q, graph, docs) ==
    (IF graph # << >>
     THEN << GRAPH_HEADER >>
          \o [ i \in 1..Min(Len(graph), GRAPH_TOP + 1) |-> location_info(i, graph[i]) ]
     ELSE << >>)
    \o
    (IF docs # << >>
     THEN << VECTOR_HEADER >>
          \o [ i \in 1..Min(Len(docs), VECTOR_TOP) |-> doc_info(i, docs[i]) ]
     ELSE << >>)

\* build_context_parts with a fault: the graph header is added without the
\* test on neo4j_results
build_context_parts_header_always(q, graph, docs) ==
    (<< GRAPH_HEADER >>
          \o [ i \in 1..Min(Len(graph), GRAPH_TOP) |-> location_info(i, graph[i]) ])
    \o
    (IF docs # << >>
     THEN << VECTOR_HEADER >>
          \o [ i \in 1..Min(Len(docs), VECTOR_TOP) |-> doc_info(i, docs[i]) ]
     ELSE << >>)

\* context_parts as build_context leaves it before the join
build_context_parts(q, graph, docs) ==
    (IF graph # << >>
     THEN << GRAPH_HEADER >>
          \o [ i \in 1..Min(Len(graph), GRAPH_TOP) |-> location_info(i, graph[i]) ]
     ELSE << >>)
    \o
    (IF docs # << >>
     THEN << VECTOR_HEADER >>
          \o [ i \in 1..Min(Len(docs), VECTOR_TOP) |-> doc_info(i, docs[i]) ]
     ELSE << >>)

build_context(q, graph, docs) == Join(build_context_parts(q, graph, docs), "\n\n")

-----------------------------------------------------------------------------
(* generate_answer                                                         *)

\* the triple-quoted prompts keep their line break and indentation
SYSTEM_PROMPTS ==
    [ itinerary |->
        "You are an expert travel planner. Create detailed, day-by-day itineraries \n"
        \o "        that include specific locations, activities, timing, and practical tips."
        \o " Be specific and organized.",
      recommendation |->
        "You are a knowledgeable travel advisor. Provide specific recommendations \n"
        \o "        with clear reasoning, considering factors like ratings, location type,"
        \o " and traveler preferences.",
      factual |->
        "You are a travel information specialist. Provide accurate, concise answers \n"
        \o "        based on the available information. If information is uncertain, say so.",
      general |->
        "You are a helpful travel assistant. Provide informative, friendly responses \n"
        \o "        that help users plan their travels." ]

INSTRUCTIONS ==
    "Instructions:\n"
    \o "- Be specific and use information from both the locations database and travel guides\n"
    \o "- If creating an itinerary, organize by days and include timing\n"
    \o "- Mention specific location names, types, and ratings when relevant\n"
    \o "- If information is limited, acknowledge it and provide best available guidance\n"
    \o "- Keep the response well-structured and easy to follow\n"

user_prompt(q, ctx) ==
    "Based on the following information, answer this question: " \o q
        \o "\n\n" \o ctx \o "\n\n" \o INSTRUCTIONS

\* messages with a fault: an unknown query type gets the factual prompt
messages_factual_default(q, ctx, qtype) ==
    << [ role |-> "system", content |-> Get(SYSTEM_PROMPTS, qtype, SYSTEM_PROMPTS["factual"]) ],
       [ role |-> "user", content |-> user_prompt(q, ctx) ] >>

\* the messages of the chat.completions.create call
messages(q, ctx, qtype) ==
    << [ role |-> "system", content |-> Get(SYSTEM_PROMPTS, qtype, SYSTEM_PROMPTS["general"]) ],
       [ role |-> "user", content |-> user_prompt(q, ctx) ] >>

-----------------------------------------------------------------------------
(* The request: answer(query, verbose), or chat(q) which calls it.         *)

\* the queries of the pipeline specification
Queries ==
    { "plan a 4 day trip",
      "best pho in Hanoi",
      "what is pho",
      "hello",
      "trip to Vietnam and Laos and Japan" }

NEO4J_LIMIT == 10
PINECONE_K == 5
COUNTRY_LIMIT == 15
CHAT_GRAPH_TOP == 5
CHAT_VECTOR_TOP == 3
CHAT_DESCRIPTION_CHARS == 200
CHAT_CHUNK_CHARS == 300

NoResponse == [ status |-> 0 ]

\* no ingestion script running
NoIngest == [ start |-> 0 ]

\* no interactive session
NoSession == [ reads |-> 0, eof |-> FALSE, errors |-> 0 ]

\* no second request
NoRequest == [ pc |-> "none" ]

\* the credentials and endpoints the module-level clients are built from
GraphSettings == { "NEO4J_URI", "NEO4J_USER", "NEO4J_PASSWORD" }
IndexSettings == { "PINECONE_API_KEY" }
ProviderSettings == { "OPENAI_API_KEY" }
Settings == GraphSettings \cup IndexSettings \cup ProviderSettings

Init ==
    /\ entry \in {"answer", "chat"}
    /\ frame = entry
    /\ pc = IF entry = "chat" THEN "chat_begin" ELSE "answer_begin"
    /\ query \in Queries
    /\ verbose \in BOOLEAN
    /\ query_type = ""
    /\ neo4j_results = << >>
    /\ pinecone_results = << >>
    /\ keywords = << >>
    /\ kw_i = 0
    /\ context_parts = << >>
    /\ context = ""
    /\ answer_text = ""
    /\ chat_neo4j_results = << >>
    /\ chat_pinecone_results = << >>
    /\ response = NoResponse
    /\ exc = ""
    /\ gen_request = << >>
    /\ calls = << >>
    /\ printed = << >>
    /\ ranked = << >>
    /\ parked = NoRequest
    /\ session = NoSession
    /\ ingest = NoIngest
    /\ env = Settings

\* the arguments the running function passes with a call
CallArgs(fn) ==
    CASE fn = "embeddings.create" -> [ input |-> query ]
      [] fn = "index.query" ->
            [ vector |-> query, top_k |-> PINECONE_K, include_metadata |-> TRUE ]
      [] fn \in { "graph.fulltext", "graph.contains" } ->
            [ search_query |-> query, limit |-> NEO4J_LIMIT ]
      [] fn = "graph.country" ->
            [ country |-> keywords[kw_i], limit |-> COUNTRY_LIMIT ]
      [] OTHER -> [ query |-> query ]

\* one more call in the history: the function, the body that issued it, its
\* arguments, whether it answered, and how many rows or matches it answered
\* with
Called(fn, ok, n) ==
    calls' = Append(calls, [ fn |-> fn, frame |-> frame, args |-> CallArgs(fn),
                             ok |-> ok, n |-> n ])

Stdout(lines) == printed' = printed \o lines

\* an exception leaves the running function: answer() has no handler, so it
\* reaches answer()'s caller; chat() turns every exception into an HTTP 500
Raise(origin) ==
    /\ exc' = origin
    /\ IF entry = "chat"
       THEN /\ pc' = "responded"
            /\ response' = [ status |-> 500, error |-> "Internal server error",
                             message |-> origin, query |-> query ]
       ELSE /\ pc' = "raised"
            /\ UNCHANGED response

\* neo4j_search returns to the function that called it
ReturnNeo4j(results) ==
    /\ pc' = "pinecone_embed"
    /\ IF frame = "chat"
       THEN chat_neo4j_results' = results /\ UNCHANGED neo4j_results
       ELSE neo4j_results' = results /\ UNCHANGED chat_neo4j_results

\* ReturnPinecone with a fault: zero matches empty the graph results
ReturnPineconeClearsGraph(results) ==
    IF frame = "chat"
    THEN /\ chat_pinecone_results' = results
         /\ pc' = "answer_begin"
         /\ frame' = "answer"
         /\ UNCHANGED << pinecone_results, neo4j_results >>
    ELSE /\ pinecone_results' = results
         /\ pc' = "extract"
         /\ neo4j_results' = IF results = << >> THEN << >> ELSE neo4j_results
         /\ UNCHANGED << frame, chat_pinecone_results >>

\* pinecone_search returns to the function that called it; chat() goes on
\* to call answer(), answer() goes on to the entities
ReturnPinecone(results) ==
    IF frame = "chat"
    THEN /\ chat_pinecone_results' = results
         /\ pc' = "answer_begin"
         /\ frame' = "answer"
         /\ UNCHANGED << pinecone_results, neo4j_results >>
    ELSE /\ pinecone_results' = results
         /\ pc' = "extract"
         /\ UNCHANGED << frame, chat_pinecone_results, neo4j_results >>

\* chat(): up to the call of neo4j_search
ChatBegin ==
    /\ pc = "chat_begin"
    /\ pc' = "neo4j_fulltext"
    /\ UNCHANGED << entry, ingest, ranked, env, parked, session,
                    frame, query, verbose, query_type, neo4j_results,
                    pinecone_results, keywords, kw_i, context_parts, context,
                    answer_text, chat_neo4j_results, chat_pinecone_results,
                    response, exc, gen_request, calls, printed >>

\* answer(): query_type = determine_query_type(query), the verbose prints,
\* up to the call of neo4j_search
AnswerBegin ==
    /\ pc = "answer_begin"
    /\ query_type' = determine_query_type(query)
    /\ Called("determine_query_type", TRUE, 0)
    /\ Stdout(IF verbose THEN << "Query type", "Processing" >> ELSE << >>)
    /\ pc' = "neo4j_fulltext"
    /\ UNCHANGED << entry, ingest, ranked, env, parked, session,
                    frame, query, verbose, neo4j_results,
                    pinecone_results, keywords, kw_i, context_parts, context,
                    answer_text, chat_neo4j_results, chat_pinecone_results,
                    response, exc, gen_request >>

\* neo4j_search: the full-text query answers
Neo4jFullTextOk ==
    /\ pc = "neo4j_fulltext"
    /\ GraphSettings \subseteq env
    /\ \E n \in GraphSizes :
         /\ n <= NEO4J_LIMIT
         /\ ReturnNeo4j(neo4j_search_results(FullTextRows(n)))
         /\ Called("graph.fulltext", TRUE, n)
    /\ UNCHANGED << entry, ingest, ranked, env, parked, session,
                    frame, query, verbose, query_type,
                    pinecone_results, keywords, kw_i, context_parts, context,
                    answer_text, chat_pinecone_results, response, exc,
                    gen_request, printed >>

\* neo4j_search: the full-text query raises, the handler prints and goes on
\* to the CONTAINS query
Neo4jFullTextFail ==
    /\ pc = "neo4j_fulltext"
    /\ pc' = "neo4j_fallback"
    /\ Called("graph.fulltext", FALSE, 0)
    /\ Stdout(<< "Neo4j search error" >>)
    /\ UNCHANGED << entry, ingest, ranked, env, parked, session,
                    frame, query, verbose, query_type, neo4j_results,
                    pinecone_results, keywords, kw_i, context_parts, context,
                    answer_text, chat_neo4j_results, chat_pinecone_results,
                    response, exc, gen_request >>

\* neo4j_search: the CONTAINS query answers
Neo4jFallbackOk ==
    /\ pc = "neo4j_fallback"
    /\ GraphSettings \subseteq env
    /\ \E n \in GraphSizes :
         /\ n <= NEO4J_LIMIT
         /\ ReturnNeo4j(dict_records(FallbackRows(n)))
         /\ Called("graph.contains", TRUE, n)
    /\ UNCHANGED << entry, ingest, ranked, env, parked, session,
                    frame, query, verbose, query_type,
                    pinecone_results, keywords, kw_i, context_parts, context,
                    answer_text, chat_pinecone_results, response, exc,
                    gen_request, printed >>

\* neo4j_search: the CONTAINS query raises inside the except block
Neo4jFallbackFail ==
    /\ pc = "neo4j_fallback"
    /\ Called("graph.contains", FALSE, 0)
    /\ Raise("neo4j_search")
    /\ UNCHANGED << entry, ingest, ranked, env, parked, session,
                    frame, query, verbose, query_type, neo4j_results,
                    pinecone_results, keywords, kw_i, context_parts, context,
                    answer_text, chat_neo4j_results, chat_pinecone_results,
                    gen_request, printed >>

\* pinecone_search: the embedding request answers
EmbedOk ==
    /\ pc = "pinecone_embed"
    /\ ProviderSettings \subseteq env
    /\ pc' = "pinecone_query"
    /\ Called("embeddings.create", TRUE, 0)
    /\ UNCHANGED << entry, ingest, ranked, env, parked, session,
                    frame, query, verbose, query_type, neo4j_results,
                    pinecone_results, keywords, kw_i, context_parts, context,
                    answer_text, chat_neo4j_results, chat_pinecone_results,
                    response, exc, gen_request, printed >>

\* EmbedFail with a fault: no handler around the embedding request
EmbedFailRaises ==
    /\ pc = "pinecone_embed"
    /\ Called("embeddings.create", FALSE, 0)
    /\ Raise("pinecone_search")
    /\ UNCHANGED << entry, ingest, ranked, env, parked, session,
                    frame, query, verbose, query_type, neo4j_results,
                    pinecone_results, keywords, kw_i, context_parts, context,
                    answer_text, chat_neo4j_results, chat_pinecone_results,
                    gen_request, printed >>

\* EmbedFail with a fault: the handler covers the embedding request only
\* and the index query follows
EmbedFailQueriesIndex ==
    /\ pc = "pinecone_embed"
    /\ Called("embeddings.create", FALSE, 0)
    /\ Stdout(<< "Pinecone search error" >>)
    /\ pc' = "pinecone_query"
    /\ UNCHANGED << entry, ingest, ranked, env, parked, session,
                    frame, query, verbose, query_type, neo4j_results,
                    pinecone_results, keywords, kw_i, context_parts, context,
                    answer_text, chat_neo4j_results, chat_pinecone_results,
                    response, exc, gen_request >>

\* pinecone_search: the embedding request raises, the handler prints and
\* returns []
EmbedFail ==
    /\ pc = "pinecone_embed"
    /\ Called("embeddings.create", FALSE, 0)
    /\ Stdout(<< "Pinecone search error" >>)
    /\ ReturnPinecone(<< >>)
    /\ UNCHANGED << entry, ingest, ranked, env, parked, session,
                    query, verbose, query_type,
                    keywords, kw_i, context_parts, context, answer_text,
                    chat_neo4j_results, response, exc, gen_request >>

\* pinecone_search: the index query answers
IndexQueryOk ==
    /\ pc = "pinecone_query"
    /\ IndexSettings \subseteq env
    /\ \E n \in MatchSizes :
         /\ n <= PINECONE_K
         /\ ReturnPinecone(pinecone_search_results(Matches(n)))
         /\ Called("index.query", TRUE, n)
    /\ UNCHANGED << entry, ingest, ranked, env, parked, session,
                    query, verbose, query_type,
                    keywords, kw_i, context_parts, context, answer_text,
                    chat_neo4j_results, response, exc, gen_request, printed >>

\* pinecone_search: the index query raises, the handler prints and returns []
IndexQueryFail ==
    /\ pc = "pinecone_query"
    /\ Called("index.query", FALSE, 0)
    /\ Stdout(<< "Pinecone search error" >>)
    /\ ReturnPinecone(<< >>)
    /\ UNCHANGED << entry, ingest, ranked, env, parked, session,
                    query, verbose, query_type,
                    keywords, kw_i, context_parts, context, answer_text,
                    chat_neo4j_results, response, exc, gen_request >>

\* Extract with a fault: the context is built before the keyword loop
ExtractBuildsContextFirst ==
    /\ pc = "extract"
    /\ keywords' = extract_entities(query).keywords
    /\ kw_i' = 1
    /\ Stdout(IF verbose THEN << "Found Neo4j", "Found Pinecone" >> ELSE << >>)
    /\ context_parts' = build_context_parts(query, neo4j_results, pinecone_results)
    /\ context' = build_context(query, neo4j_results, pinecone_results)
    /\ Called("build_context", TRUE, 0)
    /\ pc' = IF query_type = "itinerary" /\ keywords' # << >>
             THEN "country_loop" ELSE "generate"
    /\ UNCHANGED << entry, ingest, ranked, env, parked, session,
                    frame, query, verbose, query_type, neo4j_results,
                    pinecone_results, answer_text, chat_neo4j_results,
                    chat_pinecone_results, response, exc, gen_request >>

\* answer(): the verbose prints of the result counts, entities =
\* extract_entities(query), and the test that opens the keyword loop
Extract ==
    /\ pc = "extract"
    /\ keywords' = extract_entities(query).keywords
    /\ kw_i' = 1
    /\ Stdout(IF verbose THEN << "Found Neo4j", "Found Pinecone" >> ELSE << >>)
    /\ pc' = IF query_type = "itinerary" /\ keywords' # << >>
             THEN "country_loop" ELSE "build_context"
    /\ UNCHANGED << entry, ingest, ranked, env, parked, session,
                    frame, query, verbose, query_type, neo4j_results,
                    pinecone_results, context_parts, context, answer_text,
                    chat_neo4j_results, chat_pinecone_results, response, exc,
                    gen_request, calls >>

\* CountryOk with a fault: neo4j_results.extend(country_locations) is under
\* `if verbose:` with the print
CountryOkExtendsWhenVerbose ==
    /\ pc = "country_loop"
    /\ GraphSettings \subseteq env
    /\ \E n \in CountrySizes :
         /\ n <= COUNTRY_LIMIT
         /\ LET country_locations == dict_records(CountryRows(keywords[kw_i], n))
            IN  IF country_locations # << >> /\ verbose
                THEN /\ neo4j_results' = neo4j_results \o country_locations
                     /\ Stdout(<< "Added locations" >>)
                ELSE UNCHANGED << neo4j_results, printed >>
         /\ Called("graph.country", TRUE, n)
    /\ kw_i' = kw_i + 1
    /\ pc' = IF kw_i' > Len(keywords) THEN "build_context" ELSE "country_loop"
    /\ UNCHANGED << entry, ingest, ranked, env, parked, session,
                    frame, query, verbose, query_type,
                    pinecone_results, keywords, context_parts, context,
                    answer_text, chat_neo4j_results, chat_pinecone_results,
                    response, exc, gen_request >>

\* answer(): one turn of the keyword loop, get_locations_by_country answers
CountryOk ==
    /\ pc = "country_loop"
    /\ GraphSettings \subseteq env
    /\ \E n \in CountrySizes :
         /\ n <= COUNTRY_LIMIT
         /\ LET country_locations == dict_records(CountryRows(keywords[kw_i], n))
            IN  IF country_locations # << >>
                THEN /\ neo4j_results' = neo4j_results \o country_locations
                     /\ Stdout(IF verbose THEN << "Added locations" >> ELSE << >>)
                ELSE UNCHANGED << neo4j_results, printed >>
         /\ Called("graph.country", TRUE, n)
    /\ kw_i' = kw_i + 1
    /\ pc' = IF kw_i' > Len(keywords) THEN "build_context" ELSE "country_loop"
    /\ UNCHANGED << entry, ingest, ranked, env, parked, session,
                    frame, query, verbose, query_type,
                    pinecone_results, keywords, context_parts, context,
                    answer_text, chat_neo4j_results, chat_pinecone_results,
                    response, exc, gen_request >>

\* answer(): get_locations_by_country raises inside the keyword loop
CountryFail ==
    /\ pc = "country_loop"
    /\ Called("graph.country", FALSE, 0)
    /\ Raise("get_locations_by_country")
    /\ UNCHANGED << entry, ingest, ranked, env, parked, session,
                    frame, query, verbose, query_type, neo4j_results,
                    pinecone_results, keywords, kw_i, context_parts, context,
                    answer_text, chat_neo4j_results, chat_pinecone_results,
                    gen_request, printed >>

\* answer(): context = build_context(query, neo4j_results, pinecone_results)
BuildContext ==
    /\ pc = "build_context"
    /\ context_parts' = build_context_parts(query, neo4j_results, pinecone_results)
    /\ context' = build_context(query, neo4j_results, pinecone_results)
    /\ Called("build_context", TRUE, 0)
    /\ pc' = "generate"
    /\ UNCHANGED << entry, ingest, ranked, env, parked, session,
                    frame, query, verbose, query_type, neo4j_results,
                    pinecone_results, keywords, kw_i, answer_text,
                    chat_neo4j_results, chat_pinecone_results, response, exc,
                    gen_request, printed >>

\* answer() returns answer_text to its caller
ReturnAnswer ==
    /\ pc' = IF entry = "chat" THEN "chat_format" ELSE "returned"
    /\ frame' = entry

\* generate_answer: the completion request answers
GenerateOk ==
    /\ pc = "generate"
    /\ ProviderSettings \subseteq env
    /\ gen_request' = messages(query, context, query_type)
    /\ Called("chat.completions.create", TRUE, 0)
    /\ answer_text' = GeneratedText
    /\ ReturnAnswer
    /\ UNCHANGED << entry, ingest, ranked, env, parked, session,
                    query, verbose, query_type, neo4j_results,
                    pinecone_results, keywords, kw_i, context_parts, context,
                    chat_neo4j_results, chat_pinecone_results, response, exc,
                    printed >>

\* generate_answer: the completion request raises, the handler returns the
\* error as the answer
GenerateFail ==
    /\ pc = "generate"
    /\ gen_request' = messages(query, context, query_type)
    /\ Called("chat.completions.create", FALSE, 0)
    /\ answer_text' = "Error generating response: " \o ProviderError
    /\ ReturnAnswer
    /\ UNCHANGED << entry, ingest, ranked, env, parked, session,
                    query, verbose, query_type, neo4j_results,
                    pinecone_results, keywords, kw_i, context_parts, context,
                    chat_neo4j_results, chat_pinecone_results, response, exc,
                    printed >>

\* chat(): result.get("description", "")[:200] raises TypeError on None
CanSlice(v) == v.t = "str"

\* chat(): the lists formatted for the frontend
neo4j_formatted(results) ==
    [ i \in 1..Min(Len(results), CHAT_GRAPH_TOP) |->
        [ name |-> Get(results[i], "name", Str("Unknown")),
          type |-> Get(results[i], "type", Str("")),
          description |-> Str(Take(Get(results[i], "description", Str("")).s,
                                   CHAT_DESCRIPTION_CHARS)),
          rating |-> Get(results[i], "rating", Str("N/A")) ] ]

pinecone_formatted(results) ==
    [ i \in 1..Min(Len(results), CHAT_VECTOR_TOP) |->
        [ chunk |-> Str(Take(Get(results[i], "text", Str("")).s, CHAT_CHUNK_CHARS)),
          source |-> Get(results[i], "source", Str("")),
          score |-> Get(results[i], "score", Num(0)) ] ]

\* chat(): the formatting loops and the response
ChatFormat ==
    /\ pc = "chat_format"
    /\ IF \A i \in 1..Min(Len(chat_neo4j_results), CHAT_GRAPH_TOP) :
            CanSlice(Get(chat_neo4j_results[i], "description", Str("")))
       THEN /\ response' = [ status |-> 200,
                             query |-> query,
                             answer |-> answer_text,
                             neo4j |-> neo4j_formatted(chat_neo4j_results),
                             pinecone |-> pinecone_formatted(chat_pinecone_results),
                             success |-> TRUE ]
            /\ pc' = "responded"
            /\ UNCHANGED exc
       ELSE Raise("TypeError")
    /\ UNCHANGED << entry, ingest, ranked, env, parked, session,
                    frame, query, verbose, query_type, neo4j_results,
                    pinecone_results, keywords, kw_i, context_parts, context,
                    answer_text, chat_neo4j_results, chat_pinecone_results,
                    gen_request, calls, printed >>

Next ==
    \/ ChatBegin
    \/ AnswerBegin
    \/ Neo4jFullTextOk
    \/ Neo4jFullTextFail
    \/ Neo4jFallbackOk
    \/ Neo4jFallbackFail
    \/ EmbedOk
    \/ EmbedFail
    \/ IndexQueryOk
    \/ IndexQueryFail
    \/ Extract
    \/ CountryOk
    \/ CountryFail
    \/ BuildContext
    \/ GenerateOk
    \/ GenerateFail
    \/ ChatFormat

Spec == Init /\ [][Next]_vars

-----------------------------------------------------------------------------
(* Startup: the import of hybrid_chat builds the clients from whatever     *)
(* os.getenv returns, then requests are served.                            *)

\* the settings whose value goes to a client constructor as its own
\* argument; user and password go inside the auth tuple
ConstructorSettings == { "NEO4J_URI", "PINECONE_API_KEY", "OPENAI_API_KEY" }

StartupQueries == { "hello", "trip to Vietnam and Laos and Japan" }

InitStartup ==
    /\ entry \in {"answer", "chat"}
    /\ frame = entry
    /\ pc = "import"
    /\ query \in StartupQueries
    /\ verbose = FALSE
    /\ query_type = ""
    /\ neo4j_results = << >>
    /\ pinecone_results = << >>
    /\ keywords = << >>
    /\ kw_i = 0
    /\ context_parts = << >>
    /\ context = ""
    /\ answer_text = ""
    /\ chat_neo4j_results = << >>
    /\ chat_pinecone_results = << >>
    /\ response = NoResponse
    /\ exc = ""
    /\ gen_request = << >>
    /\ calls = << >>
    /\ printed = << >>
    /\ ranked = << >>
    /\ parked = NoRequest
    /\ session = NoSession
    /\ ingest = NoIngest
    /\ env \in SUBSET Settings

\* the module is imported: the constructors return and the first request
\* arrives; no statement of the module looks at the values of the settings
ImportOk ==
    /\ pc = "import"
    /\ pc' = IF entry = "chat" THEN "chat_begin" ELSE "answer_begin"
    /\ UNCHANGED << entry, ingest, ranked, env, parked, session,
                    frame, query, verbose, query_type,
                    neo4j_results, pinecone_results, keywords, kw_i,
                    context_parts, context, answer_text, chat_neo4j_results,
                    chat_pinecone_results, response, exc, gen_request, calls,
                    printed >>

\* the import fails: a client constructor rejects a missing argument
ImportRejected ==
    /\ pc = "import"
    /\ ConstructorSettings \ env # {}
    /\ pc' = "startup_failed"
    /\ exc' = "import"
    /\ UNCHANGED << entry, ingest, ranked, env, parked, session,
                    frame, query, verbose, query_type,
                    neo4j_results, pinecone_results, keywords, kw_i,
                    context_parts, context, answer_text, chat_neo4j_results,
                    chat_pinecone_results, response, gen_request, calls,
                    printed >>

NextStartup ==
    \/ ImportOk
    \/ ImportRejected
    \/ Next

SpecStartup == InitStartup /\ [][NextStartup]_vars

-----------------------------------------------------------------------------
(* Calls that never complete.  session.run is called without a timeout and *)
(* neither the driver nor answer() sets a deadline, so a graph query the   *)
(* store never answers leaves the request waiting in session.run.  (The    *)
(* embedding, index and generation clients are also built without a        *)
(* timeout; their libraries' own defaults, if any, end such a call as one  *)
(* of the failures modelled above.)                                        *)

GraphCallPositions == { "neo4j_fulltext", "neo4j_fallback", "country_loop" }

\* the graph store never answers the query: the request waits in session.run
GraphCallHangs ==
    /\ pc \in GraphCallPositions
    /\ pc' = "blocked"
    /\ Called(IF pc = "neo4j_fulltext" THEN "graph.fulltext"
              ELSE IF pc = "neo4j_fallback" THEN "graph.contains"
              ELSE "graph.country", FALSE, 0)
    /\ UNCHANGED << entry, ingest, ranked, env, parked, session,
                    frame, query, verbose, query_type,
                    neo4j_results, pinecone_results, keywords, kw_i,
                    context_parts, context, answer_text, chat_neo4j_results,
                    chat_pinecone_results, response, exc, gen_request,
                    printed >>

NextTimeout ==
    \/ GraphCallHangs
    \/ Next

SpecTimeout == Init /\ [][NextTimeout]_vars

-----------------------------------------------------------------------------
(* Two answer() calls in one process, running in two threads.  Each call   *)
(* has its own locals; the module-level clients are shared and hold no     *)
(* results.  The history of a request is kept with its locals.             *)

\* the locals (and history) of the request that is running
Locals ==
    [ entry |-> entry, frame |-> frame, pc |-> pc, query |-> query,
      verbose |-> verbose, query_type |-> query_type,
      neo4j_results |-> neo4j_results, pinecone_results |-> pinecone_results,
      keywords |-> keywords, kw_i |-> kw_i, context_parts |-> context_parts,
      context |-> context, answer_text |-> answer_text,
      chat_neo4j_results |-> chat_neo4j_results,
      chat_pinecone_results |-> chat_pinecone_results, response |-> response,
      exc |-> exc, gen_request |-> gen_request, calls |-> calls,
      printed |-> printed ]

\* the locals of answer(q) before its first statement
NewRequest(q) ==
    [ entry |-> "answer", frame |-> "answer", pc |-> "answer_begin", query |-> q,
      verbose |-> FALSE, query_type |-> "",
      neo4j_results |-> << >>, pinecone_results |-> << >>,
      keywords |-> << >>, kw_i |-> 0, context_parts |-> << >>,
      context |-> "", answer_text |-> "",
      chat_neo4j_results |-> << >>,
      chat_pinecone_results |-> << >>, response |-> NoResponse,
      exc |-> "", gen_request |-> << >>, calls |-> << >>,
      printed |-> << >> ]

FirstQuery == "hello"
SecondQuery == "trip to Laos"

InitTwo ==
    /\ entry = "answer"
    /\ frame = entry
    /\ pc = "answer_begin"
    /\ query = FirstQuery
    /\ verbose = FALSE
    /\ query_type = ""
    /\ neo4j_results = << >>
    /\ pinecone_results = << >>
    /\ keywords = << >>
    /\ kw_i = 0
    /\ context_parts = << >>
    /\ context = ""
    /\ answer_text = ""
    /\ chat_neo4j_results = << >>
    /\ chat_pinecone_results = << >>
    /\ response = NoResponse
    /\ exc = ""
    /\ gen_request = << >>
    /\ calls = << >>
    /\ printed = << >>
    /\ ranked = << >>
    /\ env = Settings
    /\ parked = NewRequest(SecondQuery)
    /\ session = NoSession
    /\ ingest = NoIngest

\* Switch with a fault: neo4j_results is one module-level list, so the
\* thread that resumes finds what the other thread left in it
SwitchSharesResults ==
    /\ parked' = Locals
    /\ entry' = parked.entry
    /\ frame' = parked.frame
    /\ pc' = parked.pc
    /\ query' = parked.query
    /\ verbose' = parked.verbose
    /\ query_type' = parked.query_type
    /\ neo4j_results' = neo4j_results
    /\ pinecone_results' = parked.pinecone_results
    /\ keywords' = parked.keywords
    /\ kw_i' = parked.kw_i
    /\ context_parts' = parked.context_parts
    /\ context' = parked.context
    /\ answer_text' = parked.answer_text
    /\ chat_neo4j_results' = parked.chat_neo4j_results
    /\ chat_pinecone_results' = parked.chat_pinecone_results
    /\ response' = parked.response
    /\ exc' = parked.exc
    /\ gen_request' = parked.gen_request
    /\ calls' = parked.calls
    /\ printed' = parked.printed
    /\ UNCHANGED << ranked, env, session, ingest >>

\* the scheduler suspends the running thread and resumes the other one:
\* every local of the running call is put aside and the other call's locals
\* are back as it left them
Switch ==
    /\ parked' = Locals
    /\ entry' = parked.entry
    /\ frame' = parked.frame
    /\ pc' = parked.pc
    /\ query' = parked.query
    /\ verbose' = parked.verbose
    /\ query_type' = parked.query_type
    /\ neo4j_results' = parked.neo4j_results
    /\ pinecone_results' = parked.pinecone_results
    /\ keywords' = parked.keywords
    /\ kw_i' = parked.kw_i
    /\ context_parts' = parked.context_parts
    /\ context' = parked.context
    /\ answer_text' = parked.answer_text
    /\ chat_neo4j_results' = parked.chat_neo4j_results
    /\ chat_pinecone_results' = parked.chat_pinecone_results
    /\ response' = parked.response
    /\ exc' = parked.exc
    /\ gen_request' = parked.gen_request
    /\ calls' = parked.calls
    /\ printed' = parked.printed
    /\ UNCHANGED << ranked, env, session, ingest >>

NextTwo ==
    \/ Switch
    \/ AnswerBegin
    \/ Neo4jFullTextOk
    \/ Neo4jFullTextFail
    \/ Neo4jFallbackOk
    \/ Neo4jFallbackFail
    \/ EmbedOk
    \/ EmbedFail
    \/ IndexQueryOk
    \/ IndexQueryFail
    \/ Extract
    \/ CountryOk
    \/ CountryFail
    \/ BuildContext
    \/ GenerateOk
    \/ GenerateFail

SpecTwo == InitTwo /\ [][NextTwo]_vars

-----------------------------------------------------------------------------
(* answer(query, verbose) called twice with the same query, once with each *)
(* value of the flag: the second call starts when the first has returned   *)
(* or raised, and the locals and history of the first are kept in parked.  *)

VerboseQueries == { "hello", "what is pho", "trip to Laos" }

InitVerbose ==
    /\ entry = "answer"
    /\ frame = entry
    /\ pc = "answer_begin"
    /\ query \in VerboseQueries
    /\ verbose \in BOOLEAN
    /\ query_type = ""
    /\ neo4j_results = << >>
    /\ pinecone_results = << >>
    /\ keywords = << >>
    /\ kw_i = 0
    /\ context_parts = << >>
    /\ context = ""
    /\ answer_text = ""
    /\ chat_neo4j_results = << >>
    /\ chat_pinecone_results = << >>
    /\ response = NoResponse
    /\ exc = ""
    /\ gen_request = << >>
    /\ calls = << >>
    /\ printed = << >>
    /\ ranked = << >>
    /\ env = Settings
    /\ parked = [ NewRequest(query) EXCEPT !.verbose = ~ verbose ]
    /\ session = NoSession
    /\ ingest = NoIngest

\* the first call is over and the caller calls answer again, with the same
\* query and the other value of the flag
AnswerAgain ==
    /\ pc \in { "returned", "raised" }
    /\ parked.pc = "answer_begin"
    /\ Switch

NextVerbose ==
    \/ AnswerAgain
    \/ AnswerBegin
    \/ Neo4jFullTextOk
    \/ Neo4jFullTextFail
    \/ Neo4jFallbackOk
    \/ Neo4jFallbackFail
    \/ EmbedOk
    \/ EmbedFail
    \/ IndexQueryOk
    \/ IndexQueryFail
    \/ Extract
    \/ CountryOk
    \/ CountryFail
    \/ BuildContext
    \/ GenerateOk
    \/ GenerateFail

SpecVerbose == InitVerbose /\ [][NextVerbose]_vars

-----------------------------------------------------------------------------
(* interactive_chat(): the read loop around answer(query, verbose=True).   *)

\* str.strip()
RECURSIVE lstrip(_)
lstrip(s) == IF s # "" /\ IsSpace(Head(s)) THEN lstrip(Tail(s)) ELSE s

RECURSIVE rstrip(_)
rstrip(s) ==
    IF s # "" /\ IsSpace(SubSeq(s, Len(s), Len(s)))
    THEN rstrip(SubSeq(s, 1, Len(s) - 1)) ELSE s

strip(s) == rstrip(lstrip(s))

QUIT_WORDS == { "quit", "exit", "bye" }

\* the lines the user types
InputLines ==
    { "", "  ", "quit", " QUIT ", "Exit", "bye\n", "quitter", "trip to Laos" }

\* the positions inside answer()
AnswerPositions ==
    { "answer_begin", "neo4j_fulltext", "neo4j_fallback", "pinecone_embed",
      "pinecone_query", "extract", "country_loop", "build_context", "generate" }

InitInteractive ==
    /\ entry = "interactive"
    /\ frame = entry
    /\ pc = "read"
    /\ query = ""
    /\ verbose = TRUE
    /\ query_type = ""
    /\ neo4j_results = << >>
    /\ pinecone_results = << >>
    /\ keywords = << >>
    /\ kw_i = 0
    /\ context_parts = << >>
    /\ context = ""
    /\ answer_text = ""
    /\ chat_neo4j_results = << >>
    /\ chat_pinecone_results = << >>
    /\ response = NoResponse
    /\ exc = ""
    /\ gen_request = << >>
    /\ calls = << >>
    /\ printed = << >>
    /\ ranked = << >>
    /\ parked = NoRequest
    /\ session = NoSession
    /\ ingest = NoIngest
    /\ env = Settings

\* the locals of an answer() call are gone once it has returned or raised
AnswerLocalsDropped ==
    /\ query_type' = ""
    /\ neo4j_results' = << >>
    /\ pinecone_results' = << >>
    /\ keywords' = << >>
    /\ kw_i' = 0
    /\ context_parts' = << >>
    /\ context' = ""
    /\ answer_text' = ""
    /\ gen_request' = << >>
    /\ calls' = << >>
    /\ frame' = entry

\* input() returns a line: strip it, skip a blank, stop on a quit word,
\* otherwise call answer(query, verbose=True)
ReadLine ==
    /\ pc = "read"
    /\ ~session.eof
    /\ session.reads < MaxReads
    /\ session' = [ session EXCEPT !.reads = @ + 1 ]
    /\ \E line \in InputLines :
         /\ query' = strip(line)
         /\ IF query' = ""
            THEN /\ pc' = "read"
                 /\ UNCHANGED << frame, printed >>
            ELSE IF lower(query') \in QUIT_WORDS
            THEN /\ pc' = "session_ended"
                 /\ printed' = << "Goodbye" >>
                 /\ UNCHANGED frame
            ELSE /\ pc' = "answer_begin"
                 /\ frame' = "answer"
                 /\ printed' = << "Thinking" >>
    /\ UNCHANGED << entry, ingest, ranked, env, parked, verbose, query_type,
                    neo4j_results, pinecone_results, keywords, kw_i,
                    context_parts, context, answer_text, chat_neo4j_results,
                    chat_pinecone_results, response, exc, gen_request, calls >>

\* input() raises EOFError: `except Exception` prints it and the loop goes
\* on to the next input(); a stream that has ended stays ended
ReadEOF ==
    /\ pc = "read"
    /\ session.reads < MaxReads
    /\ session' = [ reads |-> session.reads + 1, eof |-> TRUE,
                    errors |-> session.errors + 1 ]
    /\ printed' = << "Error" >>
    /\ pc' = "read"
    /\ UNCHANGED << entry, ingest, ranked, env, parked, frame, query, verbose,
                    query_type, neo4j_results, pinecone_results, keywords,
                    kw_i, context_parts, context, answer_text,
                    chat_neo4j_results, chat_pinecone_results, response, exc,
                    gen_request, calls >>

\* KeyboardInterrupt, in input() or anywhere inside answer(): no handler
\* below the loop's catches it; the loop prints goodbye and breaks
Interrupted ==
    /\ entry = "interactive"
    /\ pc \in {"read"} \cup AnswerPositions
    /\ exc' = "KeyboardInterrupt"
    /\ printed' = << "Goodbye" >>
    /\ pc' = "session_ended"
    /\ AnswerLocalsDropped
    /\ UNCHANGED << entry, ingest, ranked, env, parked, session, query, verbose,
                    chat_neo4j_results, chat_pinecone_results, response >>

\* answer() returned: the response is printed and the loop reads again
ResponsePrinted ==
    /\ entry = "interactive"
    /\ pc = "returned"
    /\ printed' = << "Assistant" >>
    /\ pc' = "read"
    /\ AnswerLocalsDropped
    /\ UNCHANGED << entry, ingest, ranked, env, parked, session, query, verbose,
                    chat_neo4j_results, chat_pinecone_results, response, exc >>

\* ErrorPrinted with a fault: the handler breaks out of the loop
ErrorEndsSession ==
    /\ entry = "interactive"
    /\ pc = "raised"
    /\ printed' = << "Error" >>
    /\ session' = [ session EXCEPT !.errors = @ + 1 ]
    /\ exc' = ""
    /\ pc' = "session_ended"
    /\ AnswerLocalsDropped
    /\ UNCHANGED << entry, ingest, ranked, env, parked, query, verbose,
                    chat_neo4j_results, chat_pinecone_results, response >>

\* answer() raised: `except Exception` prints the error and the loop reads
\* again
ErrorPrinted ==
    /\ entry = "interactive"
    /\ pc = "raised"
    /\ printed' = << "Error" >>
    /\ session' = [ session EXCEPT !.errors = @ + 1 ]
    /\ exc' = ""
    /\ pc' = "read"
    /\ AnswerLocalsDropped
    /\ UNCHANGED << entry, ingest, ranked, env, parked, query, verbose,
                    chat_neo4j_results, chat_pinecone_results, response >>

NextInteractive ==
    \/ ReadLine
    \/ ReadEOF
    \/ Interrupted
    \/ ResponsePrinted
    \/ ErrorPrinted
    \/ AnswerBegin
    \/ Neo4jFullTextOk
    \/ Neo4jFullTextFail
    \/ Neo4jFallbackOk
    \/ Neo4jFallbackFail
    \/ EmbedOk
    \/ EmbedFail
    \/ IndexQueryOk
    \/ IndexQueryFail
    \/ Extract
    \/ CountryOk
    \/ CountryFail
    \/ BuildContext
    \/ GenerateOk
    \/ GenerateFail

SpecInteractive == InitInteractive /\ [][NextInteractive]_vars

-----------------------------------------------------------------------------
(* pinecone_upload.chunk_text(text, max_chars, overlap): one action per    *)
(* iteration of its while loop.  Indices are Python's: 0-based, negative   *)
(* ones count from the end.                                                *)

MAX_CHUNK_SIZE == 1500
DEFAULT_OVERLAP == 150
LOOKBACK == 200

Max(a, b) == IF a > b THEN a ELSE b

\* text[i]: "" stands for IndexError
PyIndex(text, i) ==
    IF i >= 0 /\ i < Len(text) THEN SubSeq(text, i + 1, i + 1)
    ELSE IF i < 0 /\ i >= -Len(text) THEN SubSeq(text, Len(text) + i + 1, Len(text) + i + 1)
    ELSE ""

\* a slice bound as Python clips it
PyBound(text, i) ==
    IF i < 0 THEN Max(0, Len(text) + i) ELSE Min(i, Len(text))

\* text[a:b]
PySlice(text, a, b) == SubSeq(text, PyBound(text, a) + 1, PyBound(text, b))

SENTENCE_END == { ".", "!", "?", "\n" }

SetMax(S) == CHOOSE m \in S : \A x \in S : x <= m

\* for i in range(first, stop, -1): the loop runs i downwards and stops at
\* the first i with text[i] in '.!?\n', or at an i outside the text
find_boundary(text, first, stop) ==
    LET range == (stop + 1)..first
        ends == { i \in range : PyIndex(text, i) \in SENTENCE_END }
        outside == { i \in range : PyIndex(text, i) = "" }
        halts == ends \cup outside
    IN  IF halts = { } THEN [ found |-> FALSE, error |-> FALSE, i |-> stop ]
        ELSE [ found |-> SetMax(halts) \in ends,
               error |-> SetMax(halts) \in outside,
               i |-> SetMax(halts) ]

\* end, as the loop body leaves it
chunk_end(text, start, max_chars) ==
    LET end == start + max_chars
        b == find_boundary(text, end, Max(start, end - LOOKBACK))
    IN  IF end < Len(text) /\ b.found THEN b.i + 1 ELSE end

\* the boundary search reads past the text
chunk_index_error(text, start, max_chars) ==
    LET end == start + max_chars
    IN  end < Len(text) /\ find_boundary(text, end, Max(start, end - LOOKBACK)).error

TextAlphabet == { "a", ".", " " }

RECURSIVE Texts(_)
Texts(n) ==
    IF n = 0 THEN { "" }
    ELSE LET shorter == Texts(n - 1)
         IN  shorter \cup { t \o c : t \in { u \in shorter : Len(u) = n - 1 },
                                      c \in TextAlphabet }

\* texts for the default max_chars and overlap: longer than one chunk, with
\* and without a full stop right behind the first max_chars characters
DefaultTexts ==
    { LongText(MAX_CHUNK_SIZE) \o "." \o LongText(MaxTextLen),
      LongText(MAX_CHUNK_SIZE + MaxTextLen) }

InitChunk ==
    /\ entry = "chunk_text"
    /\ frame = entry
    /\ pc = "chunk_loop"
    /\ query = ""
    /\ verbose = FALSE
    /\ query_type = ""
    /\ neo4j_results = << >>
    /\ pinecone_results = << >>
    /\ keywords = << >>
    /\ kw_i = 0
    /\ context_parts = << >>
    /\ context = ""
    /\ answer_text = ""
    /\ chat_neo4j_results = << >>
    /\ chat_pinecone_results = << >>
    /\ response = NoResponse
    /\ exc = ""
    /\ gen_request = << >>
    /\ calls = << >>
    /\ printed = << >>
    /\ ranked = << >>
    /\ parked = NoRequest
    /\ session = NoSession
    /\ env = Settings
    /\ \/ \E text \in Texts(MaxTextLen), max_chars \in 1..MaxChunkChars :
            \E overlap \in 0..(max_chars - 1) :
               ingest = [ text |-> text, max_chars |-> max_chars, overlap |-> overlap,
                          start |-> 0, chunks |-> << >>, iterations |-> 0 ]
       \/ \E text \in DefaultTexts :
            ingest = [ text |-> text, max_chars |-> MAX_CHUNK_SIZE,
                       overlap |-> DEFAULT_OVERLAP,
                       start |-> 0, chunks |-> << >>, iterations |-> 0 ]

\* one iteration of `while start < text_len`; a run whose start always
\* grows has at most len(text) of them, one more is followed here
ChunkIteration ==
    /\ pc = "chunk_loop"
    /\ ingest.start < Len(ingest.text)
    /\ ingest.iterations <= Len(ingest.text)
    /\ IF chunk_index_error(ingest.text, ingest.start, ingest.max_chars)
       THEN /\ pc' = "raised"
            /\ exc' = "IndexError"
            /\ UNCHANGED ingest
       ELSE LET end == chunk_end(ingest.text, ingest.start, ingest.max_chars)
                chunk == strip(PySlice(ingest.text, ingest.start, end))
            IN  /\ ingest' = [ ingest EXCEPT
                                 !.chunks = IF chunk # "" THEN Append(@, chunk) ELSE @,
                                 !.start = IF end < Len(ingest.text)
                                           THEN end - ingest.overlap
                                           ELSE Len(ingest.text),
                                 !.iterations = @ + 1 ]
                /\ pc' = "chunk_loop"
                /\ UNCHANGED exc
    /\ UNCHANGED << entry, ranked, env, parked, session, frame, query, verbose,
                    query_type, neo4j_results, pinecone_results, keywords,
                    kw_i, context_parts, context, answer_text,
                    chat_neo4j_results, chat_pinecone_results, response,
                    gen_request, calls, printed >>

\* the loop test fails: return chunks
ChunkReturn ==
    /\ pc = "chunk_loop"
    /\ ingest.start >= Len(ingest.text)
    /\ pc' = "chunk_done"
    /\ UNCHANGED << entry, ingest, ranked, env, parked, session, frame, query,
                    verbose, query_type, neo4j_results, pinecone_results,
                    keywords, kw_i, context_parts, context, answer_text,
                    chat_neo4j_results, chat_pinecone_results, response, exc,
                    gen_request, calls, printed >>

NextChunk ==
    \/ ChunkIteration
    \/ ChunkReturn

SpecChunk == InitChunk /\ [][NextChunk]_vars

-----------------------------------------------------------------------------
(* load_to_neo4j.main(): the two loops over the nodes of the data set.     *)
(* ingest.log is the history of the session.execute_write calls.           *)

\* the connections a node of the data set may carry; a connection without
\* a target makes create_relationship return before any tx.run
ConnectionLists ==
    { << >>,
      << [ relation |-> "NEAR", target |-> "n1" ] >>,
      << [ relation |-> "Located In", target |-> "n2" ],
         [ relation |-> "NEAR", target |-> "" ] >> }

RECURSIVE Datasets(_)
Datasets(n) ==
    IF n = 0 THEN { << >> }
    ELSE LET shorter == Datasets(n - 1)
         IN  shorter \cup
             { Append(ns, [ id |-> "n" \o ToStr(n), connections |-> cs ]) :
                 ns \in { d \in shorter : Len(d) = n - 1 }, cs \in ConnectionLists }

InitLoader ==
    /\ entry = "load_to_neo4j.main"
    /\ frame = entry
    /\ pc = "create_nodes"
    /\ query = ""
    /\ verbose = FALSE
    /\ query_type = ""
    /\ neo4j_results = << >>
    /\ pinecone_results = << >>
    /\ keywords = << >>
    /\ kw_i = 0
    /\ context_parts = << >>
    /\ context = ""
    /\ answer_text = ""
    /\ chat_neo4j_results = << >>
    /\ chat_pinecone_results = << >>
    /\ response = NoResponse
    /\ exc = ""
    /\ gen_request = << >>
    /\ calls = << >>
    /\ printed = << >>
    /\ ranked = << >>
    /\ parked = NoRequest
    /\ session = NoSession
    /\ env = Settings
    /\ \E nodes \in Datasets(MaxNodes) :
         ingest = [ nodes |-> nodes, node |-> 1, rel |-> 1, log |-> << >> ]

LoaderUnchanged ==
    UNCHANGED << entry, ranked, env, parked, session, frame, query, verbose,
                 query_type, neo4j_results, pinecone_results, keywords, kw_i,
                 context_parts, context, answer_text, chat_neo4j_results,
                 chat_pinecone_results, response, exc, gen_request, calls >>

\* session.execute_write(upsert_node, node), as the history records it
NodeWrite(ok) ==
    [ op |-> "upsert_node", id |-> ingest.nodes[ingest.node].id,
      target |-> "", ok |-> ok ]

\* one turn of the first loop: session.execute_write(upsert_node, node)
\* returns
UpsertNodeOk ==
    /\ pc = "create_nodes"
    /\ ingest.node <= Len(ingest.nodes)
    /\ ingest' = [ ingest EXCEPT !.log = Append(@, NodeWrite(TRUE)),
                                  !.node = @ + 1 ]
    /\ pc' = "create_nodes"
    /\ UNCHANGED printed
    /\ LoaderUnchanged

\* UpsertNodeFail with a fault: no handler inside the loop, the exception
\* leaves main
UpsertNodeFailAborts ==
    /\ pc = "create_nodes"
    /\ ingest.node <= Len(ingest.nodes)
    /\ ingest' = [ ingest EXCEPT !.log = Append(@, NodeWrite(FALSE)) ]
    /\ pc' = "raised"
    /\ UNCHANGED printed
    /\ LoaderUnchanged

\* one turn of the first loop: session.execute_write(upsert_node, node)
\* raises into the handler of the turn, which prints
UpsertNodeFail ==
    /\ pc = "create_nodes"
    /\ ingest.node <= Len(ingest.nodes)
    /\ ingest' = [ ingest EXCEPT !.log = Append(@, NodeWrite(FALSE)),
                                  !.node = @ + 1 ]
    /\ printed' = Append(printed, "Error creating node")
    /\ pc' = "create_nodes"
    /\ LoaderUnchanged

\* the first loop is over: the second starts at the first node
NodesDone ==
    /\ pc = "create_nodes"
    /\ ingest.node > Len(ingest.nodes)
    /\ ingest' = [ ingest EXCEPT !.node = 1, !.rel = 1 ]
    /\ pc' = "create_relationships"
    /\ UNCHANGED printed
    /\ LoaderUnchanged

\* session.execute_write(create_relationship, node["id"], rel), as the
\* history records it
RelationshipWrite(ok) ==
    LET node == ingest.nodes[ingest.node]
    IN  [ op |-> "create_relationship", id |-> node.id,
          target |-> node.connections[ingest.rel].target, ok |-> ok ]

\* one turn of the inner loop:
\* session.execute_write(create_relationship, node["id"], rel) returns
CreateRelationshipOk ==
    /\ pc = "create_relationships"
    /\ ingest.node <= Len(ingest.nodes)
    /\ ingest.rel <= Len(ingest.nodes[ingest.node].connections)
    /\ ingest' = [ ingest EXCEPT !.log = Append(@, RelationshipWrite(TRUE)),
                                  !.rel = @ + 1 ]
    /\ pc' = "create_relationships"
    /\ UNCHANGED printed
    /\ LoaderUnchanged

\* one turn of the inner loop: the write raises into the handler of the
\* turn, which prints
CreateRelationshipFail ==
    /\ pc = "create_relationships"
    /\ ingest.node <= Len(ingest.nodes)
    /\ ingest.rel <= Len(ingest.nodes[ingest.node].connections)
    /\ ingest' = [ ingest EXCEPT !.log = Append(@, RelationshipWrite(FALSE)),
                                  !.rel = @ + 1 ]
    /\ printed' = Append(printed, "Error creating relationship")
    /\ pc' = "create_relationships"
    /\ LoaderUnchanged

\* the connections of the node are done: the outer loop takes the next node
NextNode ==
    /\ pc = "create_relationships"
    /\ ingest.node <= Len(ingest.nodes)
    /\ ingest.rel > Len(ingest.nodes[ingest.node].connections)
    /\ ingest' = [ ingest EXCEPT !.node = @ + 1, !.rel = 1 ]
    /\ pc' = "create_relationships"
    /\ UNCHANGED printed
    /\ LoaderUnchanged

\* the second loop is over
RelationshipsDone ==
    /\ pc = "create_relationships"
    /\ ingest.node > Len(ingest.nodes)
    /\ pc' = "loader_done"
    /\ UNCHANGED << ingest, printed >>
    /\ LoaderUnchanged

NextLoader ==
    \/ UpsertNodeOk
    \/ UpsertNodeFail
    \/ NodesDone
    \/ CreateRelationshipOk
    \/ CreateRelationshipFail
    \/ NextNode
    \/ RelationshipsDone

SpecLoader == InitLoader /\ [][NextLoader]_vars

-----------------------------------------------------------------------------
(* pinecone_upload.upsert_docs(): process_file_streaming for each file.    *)
(* ingest.upserted[k] counts the vectors index.upsert accepted for file k. *)

UPSERT_BATCH_SIZE == 50
chunk_batch_size == 20

\* len(chunk_text(text)) for the text of a file; 0 also stands for a file
\* without text
ChunkCounts == { 0, 1, chunk_batch_size, MaxFileChunks }

RECURSIVE FileLists(_)
FileLists(n) ==
    IF n = 0 THEN { << >> }
    ELSE LET shorter == FileLists(n - 1)
         IN  shorter \cup
             { Append(fs, c) : fs \in { l \in shorter : Len(l) = n - 1 },
                               c \in ChunkCounts }

RECURSIVE SeqSum(_)
SeqSum(s) == IF s = << >> THEN 0 ELSE Head(s) + SeqSum(Tail(s))

InitUpload ==
    /\ entry = "upsert_docs"
    /\ frame = entry
    /\ pc = "files"
    /\ query = ""
    /\ verbose = FALSE
    /\ query_type = ""
    /\ neo4j_results = << >>
    /\ pinecone_results = << >>
    /\ keywords = << >>
    /\ kw_i = 0
    /\ context_parts = << >>
    /\ context = ""
    /\ answer_text = ""
    /\ chat_neo4j_results = << >>
    /\ chat_pinecone_results = << >>
    /\ response = NoResponse
    /\ exc = ""
    /\ gen_request = << >>
    /\ calls = << >>
    /\ printed = << >>
    /\ ranked = << >>
    /\ parked = NoRequest
    /\ session = NoSession
    /\ env = Settings
    /\ \E files \in FileLists(MaxFiles) :
         ingest = [ files |-> files, file |-> 1, batch_start |-> 0,
                    upsert_data |-> 0, i |-> 0, total_uploaded |-> 0,
                    upserted |-> [ k \in 1..Len(files) |-> 0 ],
                    returned |-> << >>,
                    total_chunks |-> 0, successful_files |-> 0 ]

UploadUnchanged == UNCHANGED printed /\ LoaderUnchanged

\* process_file_streaming returns chunks_uploaded to the loop of
\* upsert_docs, which adds it up and takes the next file
FileReturns(chunks_uploaded) ==
    [ ingest EXCEPT !.returned = Append(@, chunks_uploaded),
                    !.total_chunks = @ + chunks_uploaded,
                    !.successful_files =
                        IF chunks_uploaded > 0 THEN @ + 1 ELSE @,
                    !.file = @ + 1,
                    !.batch_start = 0, !.upsert_data = 0, !.i = 0,
                    !.total_uploaded = 0 ]

\* the file cannot be read or parsed: the handler prints and returns 0
FileUnreadable ==
    /\ pc = "files"
    /\ ingest.file <= Len(ingest.files)
    /\ ingest' = FileReturns(0)
    /\ printed' = Append(printed, "Error")
    /\ pc' = "files"
    /\ LoaderUnchanged

\* the file has no text, or chunk_text returns no chunk: return 0
FileSkipped ==
    /\ pc = "files"
    /\ ingest.file <= Len(ingest.files)
    /\ ingest.files[ingest.file] = 0
    /\ ingest' = FileReturns(0)
    /\ printed' = Append(printed, "skipping")
    /\ pc' = "files"
    /\ LoaderUnchanged

\* the file is read and chunked: total_uploaded = 0 and the batch loop
\* starts
FileChunked ==
    /\ pc = "files"
    /\ ingest.file <= Len(ingest.files)
    /\ ingest.files[ingest.file] > 0
    /\ ingest' = [ ingest EXCEPT !.total_uploaded = 0, !.batch_start = 0 ]
    /\ pc' = "batch"
    /\ UploadUnchanged

\* one batch of chunks is embedded (embed_with_local_model returns one
\* vector per chunk, a zero vector where the model failed) and upsert_data
\* is built from it
BatchEmbedded ==
    /\ pc = "batch"
    /\ ingest.batch_start < ingest.files[ingest.file]
    /\ LET batch_end == Min(ingest.batch_start + chunk_batch_size,
                            ingest.files[ingest.file])
       IN  ingest' = [ ingest EXCEPT
                         !.upsert_data = batch_end - ingest.batch_start,
                         !.i = 0 ]
    /\ pc' = "upsert"
    /\ UploadUnchanged

\* index.upsert(vectors=batch_slice) accepts the slice
UpsertSliceOk ==
    /\ pc = "upsert"
    /\ ingest.i < ingest.upsert_data
    /\ LET batch_slice == Min(UPSERT_BATCH_SIZE, ingest.upsert_data - ingest.i)
       IN  ingest' = [ ingest EXCEPT
                         !.upserted[ingest.file] = @ + batch_slice,
                         !.i = @ + UPSERT_BATCH_SIZE ]
    /\ pc' = "upsert"
    /\ UploadUnchanged

\* index.upsert raises: the handler of process_file_streaming prints and
\* returns 0
UpsertSliceFail ==
    /\ pc = "upsert"
    /\ ingest.i < ingest.upsert_data
    /\ ingest' = FileReturns(0)
    /\ printed' = Append(printed, "Error")
    /\ pc' = "files"
    /\ LoaderUnchanged

\* every slice of the batch is upserted: total_uploaded += len(upsert_data)
BatchUploaded ==
    /\ pc = "upsert"
    /\ ingest.i >= ingest.upsert_data
    /\ ingest' = [ ingest EXCEPT
                     !.total_uploaded = @ + ingest.upsert_data,
                     !.batch_start = @ + chunk_batch_size ]
    /\ pc' = "batch"
    /\ UploadUnchanged

\* the batch loop is over: return total_uploaded
FileUploaded ==
    /\ pc = "batch"
    /\ ingest.batch_start >= ingest.files[ingest.file]
    /\ ingest' = FileReturns(ingest.total_uploaded)
    /\ pc' = "files"
    /\ UploadUnchanged

\* the loop over the files is over: the summary is printed
UploadSummary ==
    /\ pc = "files"
    /\ ingest.file > Len(ingest.files)
    /\ pc' = "upload_done"
    /\ UNCHANGED ingest
    /\ UploadUnchanged

NextUpload ==
    \/ FileUnreadable
    \/ FileSkipped
    \/ FileChunked
    \/ BatchEmbedded
    \/ UpsertSliceOk
    \/ UpsertSliceFail
    \/ BatchUploaded
    \/ FileUploaded
    \/ UploadSummary

SpecUpload == InitUpload /\ [][NextUpload]_vars

\* the writes of the history that are of operation op
WritesOf(op) == { k \in 1..Len(ingest.log) : ingest.log[k].op = op }

RECURSIVE ConnectionCount(_)
ConnectionCount(nodes) ==
    IF nodes = << >> THEN 0
    ELSE Len(Head(nodes).connections) + ConnectionCount(Tail(nodes))

\* C27: load_to_neo4j.main attempts the upsert of every node, in the order
\* of the data set, before it attempts any relationship write; a write that
\* fails is reported and the loop goes on, so that at the end every node and
\* every connection of the data set has been attempted once and no
\* exception has left main
C27_NodesBeforeRelationships ==
    entry = "load_to_neo4j.main" =>
        /\ pc # "raised"
        /\ \A k \in WritesOf("create_relationship") :
              /\ k > Len(ingest.nodes)
              /\ pc # "create_nodes"
        /\ \A k \in WritesOf("upsert_node") :
              /\ k <= Len(ingest.nodes)
              /\ ingest.log[k].id = ingest.nodes[k].id
        /\ pc \in { "create_relationships", "loader_done" } =>
              Cardinality(WritesOf("upsert_node")) = Len(ingest.nodes)
        /\ pc = "loader_done" =>
              Len(ingest.log) = Len(ingest.nodes) + ConnectionCount(ingest.nodes)

\* the first node upsert and a relationship write failed, and the loader
\* still attempted every write
C27_Witness ==
    /\ entry = "load_to_neo4j.main"
    /\ pc = "loader_done"
    /\ Len(ingest.nodes) = MaxNodes
    /\ ~ ingest.log[1].ok
    /\ \E k \in WritesOf("create_relationship") :
          /\ ~ ingest.log[k].ok
          /\ k < Len(ingest.log)

-----------------------------------------------------------------------------
(* determine_query_type on its own: the query is drawn, then classified.   *)

Vocabulary ==
    << "plan", "trip", "PLAN", "Best", "top", "what", "How", "hello", "pho",
       "Hanoi", "stopover", "holidays", "airplane", "travel", "to", "visit",
       "where", "somewhat" >>

\* the strings of 1..n vocabulary words joined by single spaces
RECURSIVE Phrases(_)
Phrases(n) ==
    IF n = 0 THEN { }
    ELSE LET words == { Vocabulary[i] : i \in 1..Len(Vocabulary) }
         IN  words \cup { p \o " " \o w : p \in Phrases(n - 1), w \in words }

ClassifyQueries == Queries \cup { "" } \cup Phrases(MaxWords)

InitClassify ==
    /\ entry = "determine_query_type"
    /\ frame = "determine_query_type"
    /\ pc = "classify_call"
    /\ query \in ClassifyQueries
    /\ verbose = FALSE
    /\ query_type = ""
    /\ neo4j_results = << >>
    /\ pinecone_results = << >>
    /\ keywords = << >>
    /\ kw_i = 0
    /\ context_parts = << >>
    /\ context = ""
    /\ answer_text = ""
    /\ chat_neo4j_results = << >>
    /\ chat_pinecone_results = << >>
    /\ response = NoResponse
    /\ exc = ""
    /\ gen_request = << >>
    /\ calls = << >>
    /\ printed = << >>
    /\ ranked = << >>
    /\ parked = NoRequest
    /\ session = NoSession
    /\ ingest = NoIngest
    /\ env = Settings

ClassifyCall ==
    /\ pc = "classify_call"
    /\ query_type' = determine_query_type(query)
    /\ pc' = "classify_done"
    /\ UNCHANGED << entry, ingest, ranked, env, parked, session,
                    frame, query, verbose, neo4j_results,
                    pinecone_results, keywords, kw_i, context_parts, context,
                    answer_text, chat_neo4j_results, chat_pinecone_results,
                    response, exc, gen_request, calls, printed >>

NextClassify == ClassifyCall

SpecClassify == InitClassify /\ [][NextClassify]_vars

-----------------------------------------------------------------------------
(* determine_query_type given any Python value: the type hint is not       *)
(* enforced, so the argument is a string, None or a number.                *)

QueryValues ==
    { Str(q) : q \in ClassifyQueries } \cup { None, Num(0), Num(42) }

InitClassifyValue ==
    /\ entry = "determine_query_type"
    /\ frame = "determine_query_type"
    /\ pc = "classify_call"
    /\ query \in QueryValues
    /\ verbose = FALSE
    /\ query_type = ""
    /\ neo4j_results = << >>
    /\ pinecone_results = << >>
    /\ keywords = << >>
    /\ kw_i = 0
    /\ context_parts = << >>
    /\ context = ""
    /\ answer_text = ""
    /\ chat_neo4j_results = << >>
    /\ chat_pinecone_results = << >>
    /\ response = NoResponse
    /\ exc = ""
    /\ gen_request = << >>
    /\ calls = << >>
    /\ printed = << >>
    /\ ranked = << >>
    /\ parked = NoRequest
    /\ session = NoSession
    /\ ingest = NoIngest
    /\ env = Settings

\* query_lower = query.lower() is the first statement: only a str has the
\* method, any other value raises AttributeError out of the function
ClassifyValueCall ==
    /\ pc = "classify_call"
    /\ IF query.t = "str"
       THEN /\ query_type' = determine_query_type(query.s)
            /\ pc' = "classify_done"
            /\ UNCHANGED exc
       ELSE /\ exc' = "AttributeError"
            /\ pc' = "raised"
            /\ UNCHANGED query_type
    /\ UNCHANGED << entry, ingest, ranked, env, parked, session,
                    frame, query, verbose, neo4j_results,
                    pinecone_results, keywords, kw_i, context_parts, context,
                    answer_text, chat_neo4j_results, chat_pinecone_results,
                    response, gen_request, calls, printed >>

NextClassifyValue == ClassifyValueCall

SpecClassifyValue == InitClassifyValue /\ [][NextClassifyValue]_vars

-----------------------------------------------------------------------------
(* build_context on its own: the two result lists are drawn, then the      *)
(* context is built from them.                                             *)

RECURSIVE Reverse(_)
Reverse(xs) == IF xs = << >> THEN << >> ELSE Append(Reverse(Tail(xs)), Head(xs))

\* the contiguous runs of a list and their reversals
Windows(xs) ==
    LET runs == { SubSeq(xs, i, j) : i \in 1..(Len(xs) + 1), j \in 0..Len(xs) }
    IN  runs \cup { Reverse(r) : r \in runs }

\* a full-text result whose stored description is longer than the budget
LongRow ==
    [ name |-> Str("Long"), description |-> Str(LongText(ContextBudget + 1)),
      type |-> Str("museum"), country |-> Str("Vietnam"),
      rating |-> Num(45), score |-> Num(31) ]

\* lists of graph results: full-text results, fallback results and country
\* locations, in any of their runs
GraphInputs ==
    Windows(neo4j_search_results(FullTextRows(MaxGraphRows))
            \o dict_records(CountryRows("Laos", MaxCountryRows)))
    \cup Windows(dict_records(FallbackRows(MaxGraphRows)))
    \cup Windows(<< LongRow >> \o neo4j_search_results(FullTextRows(2)))

\* lists of vector results: those pinecone_search builds, and one dictionary
\* with neither title nor text
VectorInputs ==
    Windows(pinecone_search_results(Matches(MaxMatches))
            \o << [ id |-> Str("bare"), score |-> Num(1) ] >>)

InitContext ==
    /\ entry = "build_context"
    /\ frame = "build_context"
    /\ pc = "context_call"
    /\ query = "hello"
    /\ verbose = FALSE
    /\ query_type = ""
    /\ neo4j_results \in GraphInputs
    /\ pinecone_results \in VectorInputs
    /\ keywords = << >>
    /\ kw_i = 0
    /\ context_parts = << >>
    /\ context = ""
    /\ answer_text = ""
    /\ chat_neo4j_results = << >>
    /\ chat_pinecone_results = << >>
    /\ response = NoResponse
    /\ exc = ""
    /\ gen_request = << >>
    /\ calls = << >>
    /\ printed = << >>
    /\ ranked = << >>
    /\ parked = NoRequest
    /\ session = NoSession
    /\ ingest = NoIngest
    /\ env = Settings

ContextCall ==
    /\ pc = "context_call"
    /\ context_parts' = build_context_parts(query, neo4j_results, pinecone_results)
    /\ context' = build_context(query, neo4j_results, pinecone_results)
    /\ pc' = "context_done"
    /\ UNCHANGED << entry, ingest, ranked, env, parked, session,
                    frame, query, verbose, query_type, neo4j_results,
                    pinecone_results, keywords, kw_i, answer_text,
                    chat_neo4j_results, chat_pinecone_results, response, exc,
                    gen_request, calls, printed >>

NextContext == ContextCall

SpecContext == InitContext /\ [][NextContext]_vars

-----------------------------------------------------------------------------
(* generate_answer on its own: generate_answer(query, context, query_type) *)
(* for the query types answer() passes and for others.                     *)

QueryTypes == { "itinerary", "recommendation", "factual", "general", "other", "" }

\* the evidence the context of the call was built from
EvidencePairs ==
    { << neo4j_search_results(FullTextRows(g)), pinecone_search_results(Matches(m)) >> :
        g \in GraphSizes, m \in MatchSizes }

InitGenerate ==
    /\ entry = "generate_answer"
    /\ frame = entry
    /\ pc = "generate"
    /\ query \in Queries
    /\ verbose = FALSE
    /\ query_type \in QueryTypes
    /\ \E ev \in EvidencePairs :
         /\ neo4j_results = ev[1]
         /\ pinecone_results = ev[2]
         /\ context_parts = build_context_parts(query, ev[1], ev[2])
         /\ context = build_context(query, ev[1], ev[2])
    /\ keywords = << >>
    /\ kw_i = 0
    /\ answer_text = ""
    /\ chat_neo4j_results = << >>
    /\ chat_pinecone_results = << >>
    /\ response = NoResponse
    /\ exc = ""
    /\ gen_request = << >>
    /\ calls = << >>
    /\ printed = << >>
    /\ ranked = << >>
    /\ parked = NoRequest
    /\ session = NoSession
    /\ ingest = NoIngest
    /\ env = Settings

NextGenerate ==
    \/ GenerateOk
    \/ GenerateFail

SpecGenerate == InitGenerate /\ [][NextGenerate]_vars

-----------------------------------------------------------------------------
(* rerank(matches, facts): the fusion of graph evidence into the vector    *)
(* ranking.  Scores are in hundredths: 30 is 0.30.                         *)

BOOST == 15

\* the ids of facts
fact_ids(facts) == { facts[i].id : i \in 1..Len(facts) }

\* a match with its fused score
fused(m, ids) ==
    [ id |-> m.id, score |-> m.score,
      fused_score |-> IF m.id \in ids THEN m.score + BOOST ELSE m.score ]

\* x put into a list sorted by fused score descending, behind its equals
RECURSIVE insert_ranked(_, _)
insert_ranked(sorted, x) ==
    IF sorted = << >> THEN << x >>
    ELSE IF Head(sorted).fused_score >= x.fused_score
         THEN << Head(sorted) >> \o insert_ranked(Tail(sorted), x)
         ELSE << x >> \o sorted

\* a stable sort by fused score descending
RECURSIVE sort_ranked(_)
sort_ranked(xs) ==
    IF xs = << >> THEN << >>
    ELSE insert_ranked(sort_ranked(SubSeq(xs, 1, Len(xs) - 1)), xs[Len(xs)])

\* rerank with a fault: the fused results are returned in input order
rerank_unsorted(matches, facts) ==
    [ i \in 1..Len(matches) |-> fused(matches[i], fact_ids(facts)) ]

rerank(matches, facts) ==
    sort_ranked([ i \in 1..Len(matches) |-> fused(matches[i], fact_ids(facts)) ])

RerankIds == { "a", "b", "c", "d" }
RerankScores == { 20, 30, 35 }

\* match lists with distinct ids, as an index returns them
RECURSIVE MatchLists(_)
MatchLists(n) ==
    IF n = 0 THEN { << >> }
    ELSE LET shorter == MatchLists(n - 1)
         IN  shorter \cup
             { Append(ms, [ id |-> i, score |-> s ]) :
                 ms \in { l \in shorter : Len(l) = n - 1 },
                 i \in RerankIds, s \in RerankScores }

DistinctIds(ms) == \A i, j \in 1..Len(ms) : ms[i].id = ms[j].id => i = j

\* fact lists: no fact, one fact, two facts of one id, facts of two ids
FactLists ==
    { << >> }
    \cup { << [ id |-> i ] >> : i \in RerankIds }
    \cup { << [ id |-> "b" ], [ id |-> "b" ] >>, << [ id |-> "b" ], [ id |-> "c" ] >> }

InitRerank ==
    /\ entry = "rerank"
    /\ frame = entry
    /\ pc = "rerank_call"
    /\ query = ""
    /\ verbose = FALSE
    /\ query_type = ""
    /\ neo4j_results \in FactLists
    /\ pinecone_results \in { ms \in MatchLists(MaxRerankMatches) : DistinctIds(ms) }
    /\ keywords = << >>
    /\ kw_i = 0
    /\ context_parts = << >>
    /\ context = ""
    /\ answer_text = ""
    /\ chat_neo4j_results = << >>
    /\ chat_pinecone_results = << >>
    /\ response = NoResponse
    /\ exc = ""
    /\ gen_request = << >>
    /\ calls = << >>
    /\ printed = << >>
    /\ ranked = << >>
    /\ parked = NoRequest
    /\ session = NoSession
    /\ ingest = NoIngest
    /\ env = Settings

\* ranked = rerank(matches, facts)
RerankCall ==
    /\ pc = "rerank_call"
    /\ ranked' = rerank(pinecone_results, neo4j_results)
    /\ pc' = "rerank_done"
    /\ UNCHANGED << entry, ingest, env, parked, session, frame, query, verbose,
                    query_type, neo4j_results,
                    pinecone_results, keywords, kw_i, context_parts, context,
                    answer_text, chat_neo4j_results, chat_pinecone_results,
                    response, exc, gen_request, calls, printed >>

NextRerank == RerankCall

SpecRerank == InitRerank /\ [][NextRerank]_vars

-----------------------------------------------------------------------------
(* What the history says about the request.                                *)

\* the calls issued by the body of answer()
IsAnswerCall(c) == c.frame = "answer"
AnswerCalls == SelectSeq(calls, IsAnswerCall)

GraphCalls == { "graph.fulltext", "graph.contains", "graph.country" }
VectorCalls == { "embeddings.create", "index.query" }

\* a call of answer() to fn raised
AnswerCallFailed(fns) ==
    \E i \in 1..Len(AnswerCalls) : AnswerCalls[i].fn \in fns /\ ~AnswerCalls[i].ok

\* how often answer() called fn
RECURSIVE CountCalls(_, _)
CountCalls(cs, fns) ==
    IF cs = << >> THEN 0
    ELSE (IF Head(cs).fn \in fns THEN 1 ELSE 0) + CountCalls(Tail(cs), fns)

\* the rows the graph store returned to answer()
RECURSIVE GraphRowsReturned(_)
GraphRowsReturned(cs) ==
    IF cs = << >> THEN 0
    ELSE (IF Head(cs).fn \in GraphCalls THEN Head(cs).n ELSE 0)
         + GraphRowsReturned(Tail(cs))

\* pinecone_search of answer() has returned
AnswerVectorSearchDone ==
    \E i \in 1..Len(AnswerCalls) :
        \/ AnswerCalls[i].fn = "index.query"
        \/ AnswerCalls[i].fn = "embeddings.create" /\ ~AnswerCalls[i].ok

\* answer() has returned its answer_text
AnswerReturned == pc \in { "returned", "chat_format" } \/ (pc = "responded" /\ frame = "chat" /\ answer_text # "")

\* an exception has left answer()
AnswerRaised == frame = "answer" /\ exc # ""

\* the generation provider produced the answer text
GeneratedByProvider ==
    \E i \in 1..Len(calls) : calls[i].fn = "chat.completions.create" /\ calls[i].ok

-----------------------------------------------------------------------------
(* C1: a failure of the vector retrieval inside pinecone_search (the       *)
(* embedding request or the index query raises) never leaves               *)
(* pinecone_search as an exception: the caller gets an empty match list;   *)
(* and answer(), when that is the failure of the request, still builds a   *)
(* context without a vector section, calls the generation provider with    *)
(* it and returns an answer.                                               *)
C1_VectorFailureDegrades ==
    /\ exc # "pinecone_search"
    /\ AnswerCallFailed(VectorCalls) =>
         /\ AnswerVectorSearchDone
         /\ pinecone_results = << >>
         /\ ~AnswerCallFailed(GraphCalls) => ~AnswerRaised
         /\ pc \in { "generate", "returned", "chat_format" } =>
              /\ ~Contains(context, VECTOR_HEADER)
              /\ neo4j_results # << >> => Contains(context, GRAPH_HEADER)
         /\ AnswerReturned =>
              /\ CountCalls(AnswerCalls, { "chat.completions.create" }) = 1
              /\ Contains(gen_request[2].content, context)
              /\ answer_text # ""

\* C1's case: the index query of answer() raised, the graph answered with
\* rows, and answer() returned the generated text
C1_Witness ==
    /\ entry = "answer"
    /\ pc = "returned"
    /\ \E i \in 1..Len(calls) : calls[i].fn = "index.query" /\ ~calls[i].ok
    /\ neo4j_results # << >>
    /\ answer_text = GeneratedText

(* C2: a result reported as success (answer() returning a string, /chat    *)
(* answering 200 with success = TRUE) always carries an answer text that   *)
(* the generation provider produced.                                       *)
C2_GenerationFailureSurfaces ==
    /\ pc = "returned" => GeneratedByProvider
    /\ (pc = "responded" /\ response.status = 200) => GeneratedByProvider

(* C3: when the full-text query and the CONTAINS query of neo4j_search     *)
(* both raise, no exception leaves answer(): it goes on to generation.     *)
C3_GraphFailureDegrades ==
    AnswerCallFailed({ "graph.contains" }) => ~AnswerRaised

(* C4: when one get_locations_by_country lookup of the keyword loop        *)
(* raises, no exception leaves answer(): the loop goes on with the other   *)
(* keywords.                                                               *)
C4_CountryLookupIsolated ==
    AnswerCallFailed({ "graph.country" }) => ~AnswerRaised

-----------------------------------------------------------------------------
(* C5, C6: the classifier.                                                 *)

Intents == { "itinerary", "recommendation", "factual", "general" }
ItineraryKeywords == { "itinerary", "trip", "plan", "days", "visit", "travel to" }
RecommendationKeywords == { "where", "find", "recommend", "best", "top" }
FactualKeywords == { "what", "who", "when", "how", "why" }

\* some keyword occurs in q, whatever the case of q's letters
Occurs(kws, q) ==
    \E w \in kws : \E i \in 1..(Len(q) - Len(w) + 1) :
        lower(SubSeq(q, i, i + Len(w) - 1)) = w

\* some keyword occurs in q as a whole word or whole phrase: between spaces
\* or the ends of q
OccursAsWord(kws, q) ==
    \E w \in kws : Contains(" " \o lower(q) \o " ", " " \o w \o " ")

(* C5: determine_query_type is total onto the four intents, insensitive to *)
(* case, and first match wins in the order itinerary, recommendation,      *)
(* factual, general; the four scenario queries get the intents named.      *)
C5_ClassificationPriority ==
    pc = "classify_done" =>
        /\ query_type \in Intents
        /\ query_type =
             IF Occurs(ItineraryKeywords, query) THEN "itinerary"
             ELSE IF Occurs(RecommendationKeywords, query) THEN "recommendation"
             ELSE IF Occurs(FactualKeywords, query) THEN "factual"
             ELSE "general"
        /\ query = "plan a 4 day trip" => query_type = "itinerary"
        /\ query = "best pho in Hanoi" => query_type = "recommendation"
        /\ query = "what is pho" => query_type = "factual"
        /\ query = "hello" => query_type = "general"

\* C5's case: an upper-case itinerary keyword beside a recommendation
\* keyword is classified itinerary
C5_Witness ==
    /\ pc = "classify_done"
    /\ query = "PLAN top"
    /\ query_type = "itinerary"

(* C6: a non-general intent is returned only when one of that intent's     *)
(* keywords occurs in the lower-cased query as a whole word or phrase.     *)
C6_WholeWordMembership ==
    pc = "classify_done" =>
        /\ query_type = "itinerary" => OccursAsWord(ItineraryKeywords, query)
        /\ query_type = "recommendation" => OccursAsWord(RecommendationKeywords, query)
        /\ query_type = "factual" => OccursAsWord(FactualKeywords, query)

-----------------------------------------------------------------------------
(* C7: the order of the steps of one answer() call.                        *)

\* the step a call belongs to: classification, retrieval, context building,
\* generation
StepOf(fn) ==
    CASE fn = "determine_query_type" -> 1
      [] fn \in GraphCalls \cup VectorCalls -> 2
      [] fn = "build_context" -> 3
      [] fn = "chat.completions.create" -> 4

(* C7: answer() classifies first, then issues all its graph and vector     *)
(* calls, then builds the context once, then calls the generation provider *)
(* once with that context: no step runs twice, no retrieval call follows   *)
(* the context, and the context generation consumes is the one built from  *)
(* the final result lists.                                                 *)
C7_StepOrder ==
    LET A == AnswerCalls
    IN  /\ \A i, j \in 1..Len(A) : i < j => StepOf(A[i].fn) <= StepOf(A[j].fn)
        /\ A # << >> => A[1].fn = "determine_query_type"
        /\ \A fn \in { "determine_query_type", "graph.fulltext", "graph.contains",
                       "embeddings.create", "index.query", "build_context",
                       "chat.completions.create" } : CountCalls(A, { fn }) <= 1
        /\ CountCalls(A, { "graph.country" }) <= Len(keywords)
        /\ CountCalls(A, { "build_context" }) = 1 =>
             context = build_context(query, neo4j_results, pinecone_results)
        /\ CountCalls(A, { "chat.completions.create" }) = 1 =>
             /\ CountCalls(A, { "build_context" }) = 1
             /\ gen_request = messages(query, context, query_type)
        /\ AnswerReturned =>
             /\ CountCalls(A, { "determine_query_type" }) = 1
             /\ CountCalls(A, { "build_context" }) = 1
             /\ CountCalls(A, { "chat.completions.create" }) = 1

\* C7's case: an itinerary request with three keyword lookups has returned
C7_Witness ==
    /\ pc = "returned"
    /\ CountCalls(AnswerCalls, { "graph.country" }) = 3
    /\ CountCalls(AnswerCalls, { "index.query" }) = 1
    /\ CountCalls(AnswerCalls, { "chat.completions.create" }) = 1

-----------------------------------------------------------------------------
(* C8: graph retrieval and the vector matches.                             *)

-----------------------------------------------------------------------------
(* C9: the fallback of neo4j_search.                                       *)

RecordFields == { "name", "description", "type", "country", "rating", "score" }

\* the list neo4j_search has just returned
LastSearchResults == IF frame = "chat" THEN chat_neo4j_results ELSE neo4j_results

(* C9: a failed full-text query is followed by the CONTAINS query, and the *)
(* records neo4j_search returns through the fallback have the fields of    *)
(* the full-text records: name, description, type, country, rating, score. *)
C9_FallbackSameShape ==
    /\ \A i \in 1..Len(calls) :
         (calls[i].fn = "graph.fulltext" /\ ~calls[i].ok) =>
             \/ i = Len(calls) /\ pc = "neo4j_fallback"
             \/ i < Len(calls) /\ calls[i + 1].fn = "graph.contains"
    /\ (pc = "pinecone_embed" /\ calls[Len(calls)].fn = "graph.contains") =>
         \A i \in 1..Len(LastSearchResults) :
             DOMAIN LastSearchResults[i] = RecordFields

-----------------------------------------------------------------------------
(* C10: what build_context renders.                                        *)

StartsWith(s, prefix) == Len(prefix) <= Len(s) /\ SubSeq(s, 1, Len(prefix)) = prefix

(* C10: the context holds the first 5 graph results at most and the first  *)
(* 3 vector results at most, in input order, and the text rendered for a   *)
(* vector result is a prefix of its text of at most 500 characters.        *)
C10_ContextIsBounded ==
    pc = "context_done" =>
        LET g == Min(Len(neo4j_results), 5)
            v == Min(Len(pinecone_results), 3)
            gh == IF neo4j_results # << >> THEN 1 ELSE 0
            vh == IF pinecone_results # << >> THEN 1 ELSE 0
        IN  /\ Len(context_parts) = gh + g + vh + v
            /\ context = Join(context_parts, "\n\n")
            /\ \A i \in 1..g :
                 StartsWith(context_parts[gh + i],
                            ToStr(i) \o ". " \o Fmt(neo4j_results[i]["name"]))
            /\ \A i \in 1..Len(neo4j_results) :
                 Contains(context, Fmt(neo4j_results[i]["name"])) <=> i <= 5
            /\ \A i \in 1..v :
                 LET part == context_parts[gh + g + vh + i]
                     text == Get(pinecone_results[i], "text", Str("")).s
                     head == ToStr(i) \o ". From "
                             \o Fmt(Get(pinecone_results[i], "title", Str("Travel Guide")))
                             \o ":\n   "
                     body == SubSeq(part, Len(head) + 1, Len(part) - 3)
                 IN  /\ StartsWith(part, head)
                     /\ Len(body) <= 500
                     /\ StartsWith(text, body)
                     /\ Len(text) <= 500 => body = text

\* C10's case: more than 5 graph results and more than 3 vector results,
\* one of the first three with a text of more than 500 characters
C10_Witness ==
    /\ pc = "context_done"
    /\ Len(neo4j_results) > 5
    /\ Len(pinecone_results) > 3
    /\ \E i \in 1..3 : Len(pinecone_results[i]["text"].s) > 500
    /\ context # ""

-----------------------------------------------------------------------------
(* C11: the size of the context.                                           *)

(* C11: the context build_context returns never has more characters than   *)
(* a fixed budget, whatever the names and descriptions of its inputs.      *)
C11_ContextWithinBudget ==
    pc = "context_done" => Len(context) <= ContextBudget

-----------------------------------------------------------------------------
(* C12: sections of the context and their evidence.                        *)

\* answer() has built its context
ContextBuilt == \E i \in 1..Len(calls) : calls[i].fn = "build_context"

\* the index query of answer() answered with zero matches
AnswerZeroMatches ==
    \E i \in 1..Len(AnswerCalls) :
        AnswerCalls[i].fn = "index.query" /\ AnswerCalls[i].ok /\ AnswerCalls[i].n = 0

(* C12: in the context build_context returns, the graph section header is  *)
(* present exactly when the graph-result list is non-empty and the vector  *)
(* section header exactly when the vector-result list is non-empty; with   *)
(* zero vector matches and two graph results the context has the graph     *)
(* section and no vector section, and answer() goes on to the generation   *)
(* call: it is made before answer() returns.                               *)
C12_SectionIffEvidence ==
    /\ ContextBuilt =>
         /\ Contains(context, GRAPH_HEADER) <=> (neo4j_results # << >>)
         /\ Contains(context, VECTOR_HEADER) <=> (pinecone_results # << >>)
    /\ (pc = "build_context" /\ pinecone_results = << >> /\ Len(neo4j_results) = 2) =>
         ENABLED BuildContext
    /\ (pc = "generate" /\ pinecone_results = << >> /\ Len(neo4j_results) = 2) =>
         /\ StartsWith(context, GRAPH_HEADER)
         /\ ~Contains(context, VECTOR_HEADER)
         /\ ENABLED GenerateOk
    /\ AnswerReturned =>
         CountCalls(AnswerCalls, {"chat.completions.create"}) = 1

\* zero matches and two graph results: the context built has the graph
\* section only and the generation call is next
C12_Witness ==
    /\ pc = "generate"
    /\ AnswerZeroMatches
    /\ pinecone_results = << >>
    /\ Len(neo4j_results) = 2
    /\ Contains(context, GRAPH_HEADER)
    /\ ~Contains(context, VECTOR_HEADER)

-----------------------------------------------------------------------------
(* C13: the messages of the generation request.                            *)

\* generate_answer has made its completion request
GenerationRequested ==
    \E i \in 1..Len(calls) : calls[i].fn = "chat.completions.create"

\* the opening sentence that tells the four system prompts apart
PromptOpening ==
    [ itinerary |-> "You are an expert travel planner.",
      recommendation |-> "You are a knowledgeable travel advisor.",
      factual |-> "You are a travel information specialist.",
      general |-> "You are a helpful travel assistant." ]

(* C13: generate_answer sends exactly two messages, the first with role    *)
(* system and the second with role user; the system message is the prompt  *)
(* of the request's query type, and the general prompt for every query     *)
(* type outside the four known ones; the user message contains the query   *)
(* and the context the call was given.                                     *)
C13_TwoMessagesSystemThenUser ==
    GenerationRequested =>
        /\ Len(gen_request) = 2
        /\ gen_request[1].role = "system"
        /\ gen_request[2].role = "user"
        /\ CountCalls(calls, {"chat.completions.create"}) = 1
        /\ LET intent == IF query_type \in DOMAIN PromptOpening
                         THEN query_type ELSE "general"
           IN  /\ StartsWith(gen_request[1].content, PromptOpening[intent])
               /\ \A other \in DOMAIN PromptOpening \ {intent} :
                    ~StartsWith(gen_request[1].content, PromptOpening[other])
        /\ Contains(gen_request[2].content, query)
        /\ Contains(gen_request[2].content, context)

\* a request with a query type outside the known four and a context with
\* both sections has been sent with the general prompt
C13_Witness ==
    /\ entry = "generate_answer"
    /\ GenerationRequested
    /\ query_type = "other"
    /\ neo4j_results # << >> /\ pinecone_results # << >>
    /\ gen_request[1].content = SYSTEM_PROMPTS["general"]
    /\ Contains(gen_request[2].content, context)

-----------------------------------------------------------------------------
(* C14: the external calls of one pinecone_search invocation.              *)

\* chat() and answer() each invoke pinecone_search once; the calls of one
\* invocation are the vector calls issued by that body
InvocationCalls(f) ==
    SelectSeq(calls, LAMBDA c : c.frame = f /\ c.fn \in VectorCalls)

(* C14: one pinecone_search(query, k) invocation makes at most one         *)
(* embedding request and at most one index query; the index query asks for *)
(* top_k = k with metadata included and comes right after an embedding     *)
(* request that answered; after a failed call of either kind the           *)
(* invocation makes no further call (no retry, and no index query after a  *)
(* failed embedding request).                                              *)
C14_OneEmbeddingOneIndexQuery ==
    \A f \in { "chat", "answer" } :
        LET cs == InvocationCalls(f)
        IN  /\ CountCalls(cs, {"embeddings.create"}) <= 1
            /\ CountCalls(cs, {"index.query"}) <= 1
            /\ \A i \in 1..Len(cs) :
                 /\ cs[i].fn = "index.query" =>
                      /\ cs[i].args.top_k = PINECONE_K
                      /\ cs[i].args.include_metadata
                      /\ i > 1 /\ cs[i-1].fn = "embeddings.create" /\ cs[i-1].ok
                 /\ ~cs[i].ok => i = Len(cs)

\* chat()'s invocation ended on a failed index query and answer()'s on a
\* failed embedding request, and both have returned
C14_Witness ==
    /\ pc = "extract"
    /\ entry = "chat"
    /\ Len(InvocationCalls("chat")) = 2 /\ ~InvocationCalls("chat")[2].ok
    /\ Len(InvocationCalls("answer")) = 1 /\ ~InvocationCalls("answer")[1].ok

-----------------------------------------------------------------------------
(* C15: embedding the same text again.                                     *)

\* the requests made to the embedding provider for the text T
EmbeddingRequests(T) ==
    SelectSeq(calls, LAMBDA c : c.fn = "embeddings.create" /\ c.args.input = T)

(* C15: within one process the embedding provider is called at most once   *)
(* per distinct text: embedding a text a second time is served from the    *)
(* cache with no call to the provider.                                     *)
C15_ProviderCalledOncePerText ==
    \A T \in Queries : Len(EmbeddingRequests(T)) <= 1

-----------------------------------------------------------------------------
(* C16: rerank.                                                            *)

(* C16: rerank(matches, facts) returns every match once, with fused score  *)
(* = score + BOOST when the match's id is the id of a fact and = score     *)
(* otherwise, ordered by fused score descending; for matches a:0.30,       *)
(* b:0.20 and a fact naming b the first result is b.                       *)
C16_RerankFusesAndSorts ==
    pc = "rerank_done" =>
        /\ Len(ranked) = Len(pinecone_results)
        /\ \A i \in 1..Len(pinecone_results) :
             \E j \in 1..Len(ranked) :
                /\ ranked[j].id = pinecone_results[i].id
                /\ ranked[j].score = pinecone_results[i].score
                /\ ranked[j].fused_score - ranked[j].score =
                     IF \E k \in 1..Len(neo4j_results) :
                            neo4j_results[k].id = ranked[j].id
                     THEN 15 ELSE 0
        /\ \A i, j \in 1..Len(ranked) :
             i < j => ranked[i].fused_score >= ranked[j].fused_score
        /\ ( /\ pinecone_results = << [ id |-> "a", score |-> 30 ],
                                      [ id |-> "b", score |-> 20 ] >>
             /\ neo4j_results = << [ id |-> "b" ] >> )
           => ranked[1].id = "b"

\* the scenario of the reranker test has been ranked: b(0.35), a(0.30)
C16_Witness ==
    /\ pc = "rerank_done"
    /\ pinecone_results = << [ id |-> "a", score |-> 30 ], [ id |-> "b", score |-> 20 ] >>
    /\ neo4j_results = << [ id |-> "b" ] >>
    /\ ranked = << [ id |-> "b", score |-> 20, fused_score |-> 35 ],
                   [ id |-> "a", score |-> 30, fused_score |-> 30 ] >>

-----------------------------------------------------------------------------
(* C17: configuration is checked at startup.                               *)

(* C17: when a credential or endpoint the pipeline uses is missing, the    *)
(* startup of the pipeline module aborts: no request is processed, and no  *)
(* error for the missing setting is first raised while a request runs.     *)
C17_StartupAbortsWhenSettingMissing ==
    env # Settings => pc \in { "import", "startup_failed" }

-----------------------------------------------------------------------------
(* C18: a deadline on external calls.                                      *)

(* C18: an external call of answer() that never completes is ended by a    *)
(* timeout error, after which the request degrades or aborts: a request    *)
(* waiting on such a call always has a next step, it does not stay blocked.*)
C18_BlockedCallTimesOut ==
    pc = "blocked" => ENABLED NextTimeout

-----------------------------------------------------------------------------
(* C19: two concurrent requests.                                           *)

\* the matches the index returned to the calls cs
RECURSIVE MatchesReturned(_)
MatchesReturned(cs) ==
    IF cs = << >> THEN 0
    ELSE (IF Head(cs).fn = "index.query" THEN Head(cs).n ELSE 0)
         + MatchesReturned(Tail(cs))

HasCall(cs, fn) == \E i \in 1..Len(cs) : cs[i].fn = fn

\* the request with locals r works on what its own query and its own
\* retrieval responses gave it, and on nothing of the query other
DerivedFromOwn(r, other) ==
    /\ Len(r.neo4j_results) = GraphRowsReturned(r.calls)
    /\ Len(r.pinecone_results) = MatchesReturned(r.calls)
    /\ \A i \in 1..Len(r.calls) :
         /\ r.calls[i].fn \in { "graph.fulltext", "graph.contains" } =>
              r.calls[i].args.search_query = r.query
         /\ r.calls[i].fn = "embeddings.create" => r.calls[i].args.input = r.query
         /\ r.calls[i].fn = "graph.country" => Contains(r.query, r.calls[i].args.country)
    /\ \A i \in 1..Len(r.neo4j_results) :
         StartsWith(r.neo4j_results[i].name.s, "Loc")
         \/ \E k \in 1..Len(r.keywords) :
                StartsWith(r.neo4j_results[i].name.s, r.keywords[k])
    /\ HasCall(r.calls, "build_context") =>
         r.context = build_context(r.query, r.neo4j_results, r.pinecone_results)
    /\ HasCall(r.calls, "chat.completions.create") =>
         /\ r.query_type = determine_query_type(r.query)
         /\ Len(r.gen_request) = 2
         /\ Contains(r.gen_request[2].content, r.query)
         /\ Contains(r.gen_request[2].content, r.context)
         /\ ~Contains(r.gen_request[2].content, other)

(* C19: in every interleaving of two concurrent answer() requests, the     *)
(* graph results, the vector results and the context from which each       *)
(* request's answer is generated come from that request's own query and    *)
(* its own retrieval responses; nothing of one request shows in the other. *)
C19_NoCrossRequestLeakage ==
    /\ { query, parked.query } = { FirstQuery, SecondQuery }
    /\ DerivedFromOwn(Locals, parked.query)
    /\ DerivedFromOwn(parked, query)

\* both requests are past their retrieval and about to generate, each with
\* graph results of its own: two rows for one, a country's rows added for
\* the other
C19_Witness ==
    /\ pc = "generate" /\ parked.pc = "generate"
    /\ query = FirstQuery
    /\ Len(neo4j_results) = 2
    /\ Len(parked.neo4j_results) = MaxGraphRows + MaxCountryRows
    /\ pinecone_results # << >> /\ parked.pinecone_results = << >>

-----------------------------------------------------------------------------
(* C20: the sources listed in the /chat response.                          *)

(* C20: in every successful /chat response the neo4j and pinecone lists    *)
(* are taken from the graph and vector result lists the returned answer's  *)
(* context was built from, each retrieval being issued once per request.   *)
C20_ResponseListsAreAnswerSources ==
    (pc = "responded" /\ response.status = 200) =>
        /\ response.neo4j = neo4j_formatted(neo4j_results)
        /\ response.pinecone = pinecone_formatted(pinecone_results)
        /\ CountCalls(calls, {"graph.fulltext"}) = 1
        /\ CountCalls(calls, {"embeddings.create"}) = 1

-----------------------------------------------------------------------------
(* C21: determine_query_type on a value that is not text.                  *)

(* C21: given a value that is not text (None, a number),                   *)
(* determine_query_type raises nothing and returns general.                *)
C21_NonTextIsGeneral ==
    (pc # "classify_call" /\ query.t # "str") =>
        (pc = "classify_done" /\ exc = "" /\ query_type = "general")

-----------------------------------------------------------------------------
(* C22: how the interactive session ends.                                  *)

\* answer() is called only for a stripped, non-blank query that is no quit
\* word; an exception that left answer() is taken by the loop's handler
SessionCallsAnswerForQueries ==
    /\ pc \in AnswerPositions =>
         /\ query # "" /\ query = strip(query)
         /\ lower(query) \notin { "quit", "exit", "bye" }
    /\ pc = "raised" => ENABLED ErrorPrinted

\* a step ends the session only on a quit word just read or on
\* KeyboardInterrupt; the step after an exception of answer() is back at
\* input(), which is read when the user types a line
SessionEndsOnQuitOrInterrupt ==
    /\ (pc # "session_ended" /\ pc' = "session_ended") =>
         \/ exc' = "KeyboardInterrupt"
         \/ pc = "read" /\ lower(query') \in { "quit", "exit", "bye" }
    /\ pc = "raised" => (pc' = "read" \/ exc' = "KeyboardInterrupt")
    /\ (pc = "raised" /\ pc' = "read" /\ session.reads < MaxReads /\ ~session.eof) =>
         (ENABLED ReadLine)'

(* C22: the interactive session ends only when the user enters quit, exit  *)
(* or bye (any case, surrounding blanks ignored) or on KeyboardInterrupt;  *)
(* an exception raised by answer() does not end it, the next input is      *)
(* read; answer() is never called for a blank input or for a quit word.    *)
C22_SessionEndsOnlyOnQuit ==
    [](SessionCallsAnswerForQueries) /\ [][SessionEndsOnQuitOrInterrupt]_vars

\* answer() raised on the first input, and the second input has been read
\* and passed to answer()
C22_Witness ==
    /\ entry = "interactive"
    /\ session = [ reads |-> 2, eof |-> FALSE, errors |-> 1 ]
    /\ pc = "answer_begin"

-----------------------------------------------------------------------------
(* C29: the end of the input stream.                                       *)

(* C29: when input() raises EOFError because the input stream has ended,   *)
(* interactive_chat returns: it is not back at input() to read, and fail,  *)
(* again.                                                                  *)
C29_SessionEndsAtEOF ==
    session.eof => pc = "session_ended"

-----------------------------------------------------------------------------
(* C23: the locations added by the keyword lookups.                        *)

\* a keyword lookup of answer() returned at least one location
CountryLocationsAdded ==
    \E i \in 1..Len(AnswerCalls) :
        AnswerCalls[i].fn = "graph.country" /\ AnswerCalls[i].ok /\ AnswerCalls[i].n > 0

\* the locations of neo4j_results that came from get_locations_by_country
IsCountryLocation(result) ==
    \E k \in 1..Len(keywords) : StartsWith(result.name.s, keywords[k] \o " Site ")

(* C23: when a keyword lookup of an itinerary query returned at least one  *)
(* location, at least one added location is rendered in the context given  *)
(* to generation, however many results neo4j_search returned.              *)
C23_AddedLocationsRendered ==
    (ContextBuilt /\ CountryLocationsAdded) =>
        \E i \in 1..Len(neo4j_results) :
            /\ IsCountryLocation(neo4j_results[i])
            /\ Contains(context, neo4j_results[i].name.s)

-----------------------------------------------------------------------------
(* C24: /chat when the pipeline succeeded.                                 *)

(* C24: whenever answer(query) returned a text to chat(), whatever the     *)
(* graph and vector results were (null description, type or rating         *)
(* included), chat() answers with a success response, not an HTTP 500.     *)
C24_ChatSucceedsWhenAnswerDoes ==
    (entry = "chat" /\ pc = "responded" /\ answer_text # "") =>
        (response.status = 200 /\ response.success)

-----------------------------------------------------------------------------
(* C25, C26: chunk_text.                                                   *)

(* C25: for every text and every max_chars and overlap with                *)
(* 0 <= overlap < max_chars, the start position of chunk_text grows        *)
(* strictly on every iteration of its loop (so the loop ends).             *)
C25_StartStrictlyIncreases ==
    [][(pc = "chunk_loop" /\ pc' = "chunk_loop") => ingest'.start > ingest.start]_vars

(* C26: every chunk chunk_text returns has at most max_chars characters,   *)
(* also when a sentence-ending character sits at index start + max_chars.  *)
C26_ChunkWithinMaxChars ==
    entry = "chunk_text" =>
        \A i \in 1..Len(ingest.chunks) : Len(ingest.chunks[i]) <= ingest.max_chars

\* C28: process_file_streaming returns the number of chunks of the file
\* that were upserted to the index, whatever the outcome, and the
\* total_chunks of upsert_docs is the number of vectors upserted in the run
C28_ReturnsChunksUpserted ==
    (entry = "upsert_docs" /\ pc \in { "files", "upload_done" }) =>
        /\ \A k \in 1..Len(ingest.returned) :
              ingest.returned[k] = ingest.upserted[k]
        /\ ingest.total_chunks = SeqSum(ingest.upserted)


\* the calls that leave the process: to the graph, the index and the model
\* provider
ExternalFns ==
    { "graph.fulltext", "graph.contains", "graph.country",
      "embeddings.create", "index.query", "chat.completions.create" }

ExternalCalls(cs) == SelectSeq(cs, LAMBDA c : c.fn \in ExternalFns)

\* two calls of answer with the same query that differ in the flag
VerbosePair ==
    /\ parked.pc # "none"
    /\ parked.query = query
    /\ parked.verbose # verbose

\* the first k external calls of both runs were answered alike
SameResponses(a, b, k) ==
    /\ k <= Len(a)
    /\ k <= Len(b)
    /\ \A j \in 1..k : a[j] = b[j]

AnswerOver(p) == p \in { "returned", "raised" }

\* C30: of two answer calls with the same query, one verbose and one not,
\* each external call is the same call with the same arguments as long as
\* the earlier ones were answered alike, and when every call was answered
\* alike both runs make the same number of calls, build the same context
\* and end alike with the same answer
C30_VerboseOnlyPrints ==
    VerbosePair =>
        LET a == ExternalCalls(calls)
            b == ExternalCalls(parked.calls)
        IN  /\ \A k \in 1..Min(Len(a), Len(b)) :
                  SameResponses(a, b, k - 1) =>
                      /\ a[k].fn = b[k].fn
                      /\ a[k].args = b[k].args
            /\ ( /\ AnswerOver(pc)
                 /\ AnswerOver(parked.pc)
                 /\ SameResponses(a, b, Min(Len(a), Len(b))) ) =>
                    /\ Len(a) = Len(b)
                    /\ context = parked.context
                    /\ answer_text = parked.answer_text
                    /\ pc = parked.pc
                    /\ exc = parked.exc

\* both calls have returned after the same answers of the providers, the
\* country lookup included, and only the verbose one printed its diagnostics
C30_Witness ==
    /\ VerbosePair
    /\ pc = "returned"
    /\ parked.pc = "returned"
    /\ ExternalCalls(calls) = ExternalCalls(parked.calls)
    /\ \E k \in 1..Len(calls) : calls[k].fn = "graph.country" /\ calls[k].n > 0
    /\ context # ""
    /\ printed # parked.printed

=============================================================================
